---- MODULE Spec2Model ----
(***************************************************************************)
(* WaveformPlayer (core.js / audio.js) as a state machine.                 *)
(*                                                                         *)
(* The page is single threaded: every public method, every media event    *)
(* listener and every animation-frame callback runs to completion, and a   *)
(* promise continuation runs in the same task as the listener that         *)
(* resolved it.  One action of the model is one such run.                  *)
(*                                                                         *)
(* The HTMLMediaElement owned by a player is modelled by what its methods  *)
(* do to `paused`, `currentTime`, the resource state and the events they   *)
(* queue.  The events that a call of the page causes (play, pause,         *)
(* loadstart) are queued and delivered one at a time, in the order in      *)
(* which they were queued (one FIFO task queue for the document).  The     *)
(* events that the media resource raises on its own (loadedmetadata,       *)
(* canplay, error, and pause with ended at the end of the track) are       *)
(* raised when no event is waiting and are handled in the step that raises *)
(* them.  Assigning `src` runs the media element load algorithm, which     *)
(* pauses the element and drops the events it still had queued.            *)
(***************************************************************************)
EXTENDS Integers, Sequences, FiniteSets, TLC

\* ------------------------------------------------------------------ bounds

\* Events that may be outstanding before the page issues another call.
MaxQueue == 2
\* load() calls of one player that may be pending at the same time.
MaxLoads == 1
\* Length of the media resource, in time units (1 unit = 1/Duration of progress).
Duration == 2000

\* ------------------------------------------------------- program constants

\* updateProgress redraws when progress moved by more than 1/EpsilonDen.
EpsilonDen == 1000
\* DEFAULT_OPTIONS.samples
Samples == 200

\* ------------------------------------------------------------- input sets

AllPlayers == {"p1", "p2"}
NoPlayer == "null"
NoUrl == "none"
Urls == {"a.mp3", "b.mp3"}
\* Playback positions the media is observed at.
TimePoints == {0, 1, 1000, Duration}
\* Shapes of a pre-supplied waveform option (setWaveformData's branches).
WaveformInputs == {"array", "jsonArray", "csv", "jsonObject", "object"}
NoWaveform == [data |-> "none", url |-> NoUrl]
\* Length of a pre-supplied envelope.
SuppliedLen == 3

VARIABLES
    instances,         \* the players constructed and not destroyed
    registry,          \* WaveformPlayer.instances (a Map keyed by id), and each this.id
    currentlyPlaying,  \* WaveformPlayer.currentlyPlaying
    players,           \* per player: the fields set in the constructor
    options,           \* per player: this.options
    audio,             \* per player: this.audio, the media element
    loads,             \* per player: the load() calls that have not settled
    raf,               \* per player: scheduled animation-frame callbacks
    initPending,       \* per player: init()'s first animation frame has not run
    queue,             \* media events queued and not yet delivered
    notes,             \* what the last step notified (callbacks, settled loads)
    call,              \* the public call the last step made, if any
    playlist,          \* the WaveformPlaylist driving a player, if any
    calc,              \* a library function applied to arguments, and its result
    tk                 \* observer of the last takeover by play()

vars == <<instances, registry, currentlyPlaying, players, options, audio, loads, raf,
          initPending, queue, notes, call, playlist, calc, tk>>

\* ------------------------------------------------------------------ values

EmptyEnvelope == [len |-> 0, from |-> "none", url |-> NoUrl]

NewPlayer ==
    [waveformData |-> EmptyEnvelope, progress |-> 0, isPlaying |-> FALSE,
     isLoading |-> FALSE, hasError |-> FALSE, updateTimer |-> "null",
     detectedBPM |-> NoUrl,
     playBtnDisabled |-> FALSE, canvasDimmed |-> FALSE, errorShown |-> FALSE]

NewAudio ==
    [media |-> "empty", src |-> NoUrl, paused |-> TRUE, currentTime |-> 0,
     canplayDue |-> FALSE]

NoCall == [op |-> "none", p |-> NoPlayer, arg |-> 0]

\* No library function is under analysis.
NoCalc == [fn |-> "none", in |-> <<>>, out |-> <<>>]

NoTk == [a |-> NoPlayer, b |-> NoPlayer, n |-> 0, pausedB |-> FALSE, order |-> "none"]

\* The state the methods below transform; Cur reads it, Commit writes it.
Cur ==
    [inst |-> instances, reg |-> registry, cp |-> currentlyPlaying, pl |-> players, opt |-> options,
     au |-> audio, loads |-> loads, raf |-> raf, q |-> queue,
     notes |-> <<>>, done |-> <<>>, cancelled |-> FALSE, threw |-> FALSE,
     call |-> NoCall, plist |-> playlist]

Called(S, op, p, arg) == [S EXCEPT !.call = [op |-> op, p |-> p, arg |-> arg]]

Note(S, what, p) == [S EXCEPT !.notes = Append(@, <<what, p>>)]

NotedIn(ns, what, p) == \E i \in 1..Len(ns) : ns[i] = <<what, p>>

Noted(what, p) == NotedIn(notes, what, p)

\* A TypeError is thrown (a property of null or undefined is read): what is left
\* of the running callback and of its callers is skipped.
Throw(S, p) == [Note(S, "TypeError", p) EXCEPT !.threw = TRUE]

\* The exception of a listener is reported; the next listener runs.
Caught(S) == [S EXCEPT !.threw = FALSE]

\* -------------------------------------------------- the media element

\* audio.duration: NaN (0 here) until the metadata is known.
duration(a) == IF a.media \in {"ready", "broken"} THEN Duration ELSE 0

Enqueue(S, ev, p) == [S EXCEPT !.q = Append(@, [ev |-> ev, p |-> p])]

NotOf(p, e) == e.p # p

\* audio.play(): rejected when the source failed to load; otherwise a paused
\* element starts (from the beginning when it had ended) and queues `play`.
audioPlay(S, p) ==
    LET a == S.au[p] IN
    IF a.media = "failed" \/ ~a.paused THEN S
    ELSE Enqueue([S EXCEPT !.au[p].paused = FALSE,
                           !.au[p].currentTime =
                               IF a.media = "ready" /\ a.currentTime = Duration
                               THEN 0 ELSE a.currentTime],
                 "play", p)

\* audio.pause(): a playing element is paused and queues `pause`.
audioPause(S, p) ==
    IF S.au[p].paused THEN S
    ELSE Enqueue([S EXCEPT !.au[p].paused = TRUE], "pause", p)

\* audio.src = url (and audio.load()): the load algorithm drops the element's
\* queued events, pauses it, rewinds it and starts fetching; `loadstart` follows.
audioSetSrc(S, p, url) ==
    Enqueue([S EXCEPT !.q = SelectSeq(@, LAMBDA e : NotOf(p, e)),
                      !.au[p] = [media |-> "loading", src |-> url,
                                 paused |-> TRUE, currentTime |-> 0,
                                 canplayDue |-> FALSE],
                      !.cancelled = TRUE],
            "loadstart", p)

\* ------------------------------------------------- the playlist's tracks

\* The tracks parseTracks finds in the markup: their urls and the times of
\* their chapters; a playlist has the first ntracks of them.
TrackUrls == <<"t0.mp3", "t1.mp3", "t2.mp3", "t3.mp3", "t4.mp3">>

TrackChapters == << <<0, 1000>>, <<>>, <<1000>>, <<>>, <<0>> >>

OptionNames ==
    {"layout", "continuous", "expandChapters", "showDuration", "showPlayState",
     "showChapterMarkers", "chapterMarkerColor"}

Unset == "unset"

UnsetOptions == [o \in OptionNames |-> Unset]

DefaultMarkerColor == "rgba(168, 85, 247, 0.8)"

\* parseOptions(providedOptions), for the playlist's own options: dataset holds
\* the container's data attributes, provided the constructor's argument.
parseOptions(dataset, provided) ==
    [o \in OptionNames |->
        CASE o = "layout" ->
                 IF dataset[o] # Unset THEN dataset[o]
                 ELSE IF provided[o] # Unset THEN provided[o] ELSE "list"
          [] o = "continuous" ->
                 IF dataset[o] = "true" \/ provided[o] = "true" THEN "true" ELSE "false"
          [] o \in {"expandChapters", "showDuration", "showPlayState"} ->
                 IF dataset[o] # "false" THEN "true" ELSE "false"
          [] o = "showChapterMarkers" ->
                 IF dataset[o] # Unset
                 THEN (IF dataset[o] = "true" THEN "true" ELSE "false")
                 ELSE "null"
          [] o = "chapterMarkerColor" ->
                 IF dataset[o] # Unset THEN dataset[o] ELSE DefaultMarkerColor]

\* No cross-track seekToChapter is being followed.
NoSought == [track |-> -1, time |-> 0]

\* player is this.player and ntracks this.tracks.length; callbacks is the player
\* whose options hold the playlist's callbacks, timers the times captured by
\* the pending setTimeout callbacks of seekToChapter, sought the last
\* cross-track seekToChapter.
NoPlaylist ==
    [player |-> NoPlayer, ntracks |-> 0, dataset |-> UnsetOptions,
     provided |-> UnsetOptions, options |-> UnsetOptions,
     currentTrackIndex |-> 0, currentChapterIndex |-> -1, isPlaying |-> FALSE,
     callbacks |-> NoPlayer, timers |-> <<>>, sought |-> NoSought]

\* destroy() cleared this.listElement, this.player and this.tracks.
Cleared(S) == S.plist.callbacks # NoPlayer /\ S.plist.player = NoPlayer

\* updateActiveChapter(currentTime): the last chapter of the current track that
\* starts at or before currentTime, -1 when there is none.
\* updateActiveChapter that searches the chapters from the first one on.
updateActiveChapter_first(S, currentTime) ==
    LET chapters == TrackChapters[S.plist.currentTrackIndex + 1]
        hits == {i \in 1..Len(chapters) : currentTime >= chapters[i]}
    IN IF S.plist.currentTrackIndex >= S.plist.ntracks THEN Throw(S, S.plist.callbacks)
       ELSE IF chapters = <<>> THEN S
       ELSE [S EXCEPT !.plist.currentChapterIndex =
                IF hits = {} THEN -1
                ELSE (CHOOSE i \in hits : \A j \in hits : i <= j) - 1]

updateActiveChapter(S, currentTime) ==
    LET chapters == TrackChapters[S.plist.currentTrackIndex + 1]
        hits == {i \in 1..Len(chapters) : currentTime >= chapters[i]}
    IN IF S.plist.currentTrackIndex >= S.plist.ntracks THEN Throw(S, S.plist.callbacks)
       ELSE IF chapters = <<>> THEN S
       ELSE [S EXCEPT !.plist.currentChapterIndex =
                IF hits = {} THEN -1
                ELSE (CHOOSE i \in hits : \A j \in hits : j <= i) - 1]

\* setActiveTrack(index): the buttons of the minimal layout, or the items when
\* there are several tracks, are looked up in this.listElement.
setActiveTrack(S) ==
    IF Cleared(S) /\ S.plist.options["layout"] = "minimal"
    THEN Throw(S, S.plist.callbacks) ELSE S

\* updatePlayState(): with showPlayState, the artwork is looked up in
\* this.listElement.
updatePlayState(S) ==
    IF S.threw THEN S
    ELSE IF Cleared(S) /\ S.plist.options["showPlayState"] = "true"
    THEN Throw(S, S.plist.callbacks) ELSE S

\* The onPlay callback the playlist gives its player.
playlistOnPlay(S) ==
    updatePlayState(setActiveTrack([S EXCEPT !.plist.isPlaying = TRUE]))

\* 0.1 s, the distance from the end within which a pause resets the chapter.
NearEnd == 100

\* The onPause callback the playlist gives its player.
playlistOnPause(S) ==
    LET S1 == updatePlayState([S EXCEPT !.plist.isPlaying = FALSE])
    IN IF S1.threw \/ S.plist.player = NoPlayer THEN S1
       ELSE LET a == S.au[S.plist.player]
            IN IF duration(a) # 0 /\ a.currentTime >= duration(a) - NearEnd
               THEN updateActiveChapter(
                        [S1 EXCEPT !.plist.currentChapterIndex = -1], 0)
               ELSE S1

\* The player's options.onXxx callbacks: those of the playlist that owns it.
Owned(S, p) == S.plist.callbacks = p

\* ------------------------------------------------------ progress updates

\* cancelAnimationFrame(this.updateTimer); this.updateTimer = null
stopSmoothUpdate(S, p) ==
    IF S.pl[p].updateTimer = "null" THEN S
    ELSE [S EXCEPT !.raf[p] = SelectSeq(@, LAMBDA cur : ~cur),
                   !.pl[p].updateTimer = "null"]

\* this.updateTimer = requestAnimationFrame(update): the new callback is the one
\* the handle names; an older callback still scheduled is no longer named.
requestFrame(S, p) ==
    [S EXCEPT !.raf[p] = Append([i \in 1..Len(@) |-> FALSE], TRUE),
              !.pl[p].updateTimer = "live"]

startSmoothUpdate(S, p) == requestFrame(stopSmoothUpdate(S, p), p)

Abs(x) == IF x < 0 THEN -x ELSE x

\* updateProgress that shows the time left instead of the time played.
updateProgress_timeLeft(S, p) ==
    LET a == S.au[p] IN
    IF duration(a) = 0 THEN S
    ELSE Note([S EXCEPT !.pl[p].progress = duration(a) - a.currentTime],
              "onTimeUpdate", p)

\* progress is kept as progress * Duration, so newProgress is currentTime.
updateProgress(S, p) ==
    LET a == S.au[p] IN
    IF duration(a) = 0 THEN S
    ELSE LET S1 == Note(IF Abs(a.currentTime - S.pl[p].progress) * EpsilonDen
                               > duration(a)
                        THEN [S EXCEPT !.pl[p].progress = a.currentTime]
                        ELSE S,
                        "onTimeUpdate", p)
         IN IF Owned(S1, p) THEN updateActiveChapter(S1, a.currentTime) ELSE S1

\* --------------------------------------------------------- event handlers

setLoading(S, p, loading) == [S EXCEPT !.pl[p].isLoading = loading]

onPlay(S, p) ==
    LET S1 == Note(startSmoothUpdate([S EXCEPT !.pl[p].isPlaying = TRUE], p),
                   "onPlay", p)
    IN IF Owned(S1, p) THEN playlistOnPlay(S1) ELSE S1

onPause(S, p) ==
    LET S1 == Note(stopSmoothUpdate([S EXCEPT !.pl[p].isPlaying = FALSE], p),
                   "onPause", p)
    IN IF Owned(S1, p) THEN playlistOnPause(S1) ELSE S1

\* onError leaving the play button enabled.
onError_keepsButton(S, p) ==
    Note([setLoading([S EXCEPT !.pl[p].hasError = TRUE], p, FALSE)
             EXCEPT !.pl[p].errorShown = TRUE,
                    !.pl[p].canvasDimmed = TRUE],
         "onError", p)

onError(S, p) ==
    Note([setLoading([S EXCEPT !.pl[p].hasError = TRUE], p, FALSE)
             EXCEPT !.pl[p].errorShown = TRUE,
                    !.pl[p].canvasDimmed = TRUE,
                    !.pl[p].playBtnDisabled = TRUE],
         "onError", p)

\* ------------------------------------------------------------- public API

pause(S, p) ==
    audioPause(IF S.cp = p THEN [S EXCEPT !.cp = NoPlayer] ELSE S, p)

\* play() that leaves the other holder playing.
play_keepsOther(S, p) == audioPlay([S EXCEPT !.cp = p], p)

\* play() that starts its own media before it pauses the other holder.
play_startsFirst(S, p) ==
    LET S1 == audioPlay(S, p)
        S2 == IF S.opt[p].singlePlay /\ S.cp # NoPlayer /\ S.cp # p
              THEN pause(S1, S.cp) ELSE S1
    IN [S2 EXCEPT !.cp = p]

play(S, p) ==
    LET S1 == IF S.opt[p].singlePlay /\ S.cp # NoPlayer /\ S.cp # p
              THEN pause(S, S.cp) ELSE S
    IN audioPlay([S1 EXCEPT !.cp = p], p)

togglePlay(S, p) == IF S.pl[p].isPlaying THEN pause(S, p) ELSE play(S, p)

Max(x, y) == IF x > y THEN x ELSE y

Min(x, y) == IF x < y THEN x ELSE y

\* seekTo that assigns the position it is given.
seekTo_unclamped(S, p, seconds) ==
    IF duration(S.au[p]) = 0 THEN S
    ELSE updateProgress([S EXCEPT !.au[p].currentTime = seconds], p)

\* seekTo that leaves the progress to the next polling tick.
seekTo_lazy(S, p, seconds) ==
    IF duration(S.au[p]) = 0 THEN S
    ELSE [S EXCEPT !.au[p].currentTime = Max(0, Min(seconds, duration(S.au[p])))]

seekTo(S, p, seconds) ==
    IF duration(S.au[p]) = 0 THEN S
    ELSE updateProgress(
             [S EXCEPT !.au[p].currentTime = Max(0, Min(seconds, duration(S.au[p])))],
             p)

\* A percentage (0-1) is given in thousandths.
PercentDen == 1000

seekToPercent(S, p, percent) ==
    IF duration(S.au[p]) = 0 THEN S
    ELSE updateProgress(
             [S EXCEPT !.au[p].currentTime =
                 (duration(S.au[p]) * Max(0, Min(PercentDen, percent))) \div PercentDen],
             p)

\* --------------------------------------------------------------- loading

\* setWaveformData(data): a numeric array, a JSON array string and a
\* comma-separated string give the numbers; a string that parses as JSON but not
\* to an array, and a value that is neither string nor array, give [].
setWaveformData(S, p, w) ==
    [S EXCEPT !.pl[p].waveformData =
        IF w.data \in {"array", "jsonArray", "csv"}
        THEN [len |-> SuppliedLen, from |-> "supplied", url |-> w.url]
        ELSE EmptyEnvelope]

\* generatePlaceholderWaveform(samples)
generatePlaceholderWaveform(url) == [len |-> Samples, from |-> "placeholder", url |-> url]

\* load(url), up to its first await: the state is reset, the source assigned and
\* the two one-shot listeners registered.
load(S, p, url, kind) ==
    LET S1 == [setLoading(Note(S, "load", p), p, TRUE)
                  EXCEPT !.pl[p].progress = 0, !.pl[p].hasError = FALSE]
    IN [audioSetSrc(S1, p, url)
           EXCEPT !.loads[p] = Append(@, [url |-> url, stage |-> "meta", kind |-> kind])]

\* The note left when a load() call of the given caller settles.
Settled(kind) ==
    IF kind = "track" THEN "trackSettled"
    ELSE IF kind = "init" THEN "initSettled" ELSE "loadSettled"

\* The end of load(): onLoad, then the finally block; the call has settled.
finishLoad(S, p, rec) ==
    [Note(setLoading(Note(S, "onLoad", p), p, FALSE), Settled(rec.kind), p)
        EXCEPT !.done = Append(@, rec.kind)]

\* load() after the metadata promise resolved, up to its next await.
loadAfterMetadata(S, p, rec) ==
    IF S.opt[p].waveform.data # "none"
    THEN finishLoad(setWaveformData(S, p, S.opt[p].waveform), p, rec)
    ELSE [S EXCEPT !.loads[p] = Append(@, [rec EXCEPT !.stage = "analysis"])]

\* load() after the metadata promise rejected: the catch and finally blocks.
loadAfterError(S, p, rec) ==
    [Note(setLoading(onError(S, p), p, FALSE), Settled(rec.kind), p)
        EXCEPT !.done = Append(@, rec.kind)]

\* load() that lets a failed analysis reject the whole call.
loadAfterAnalysis_aborts(S, p, rec, outcome) ==
    IF outcome = "failed"
    THEN loadAfterError(Note(S, outcome, p), p, rec)
    ELSE finishLoad(Note([S EXCEPT !.pl[p].waveformData =
                                       [len |-> Samples, from |-> "peaks", url |-> rec.url],
                                   !.pl[p].detectedBPM =
                                       IF outcome = "peaksAndBpm" THEN rec.url ELSE @],
                         outcome, p), p, rec)

\* load() after generateWaveform settled: peaks (and the BPM when detected), or
\* the placeholder when it threw.
loadAfterAnalysis(S, p, rec, outcome) ==
    LET S1 == IF outcome = "failed"
              THEN [S EXCEPT !.pl[p].waveformData = generatePlaceholderWaveform(rec.url)]
              ELSE [S EXCEPT !.pl[p].waveformData =
                                 [len |-> Samples, from |-> "peaks", url |-> rec.url],
                             !.pl[p].detectedBPM =
                                 IF outcome = "peaksAndBpm" THEN rec.url ELSE @]
    IN finishLoad(Note(S1, outcome, p), p, rec)

\* loadTrack that does not play after its load settled.
afterLoad_trackStaysPaused(S, p, kind) ==
    IF kind = "init" /\ S.opt[p].autoplay
    THEN Note(play(S, p), "autoPlay", p)
    ELSE S

\* What the caller of a settled load() does next: loadTrack plays, init plays
\* when autoplay is set, a direct load() does nothing.
afterLoad(S, p, kind) ==
    IF kind = "track" \/ (kind = "init" /\ S.opt[p].autoplay)
    THEN Note(play(S, p), "autoPlay", p)
    ELSE S

RECURSIVE afterLoads(_, _, _)
afterLoads(S, p, kinds) ==
    IF kinds = <<>> THEN S
    ELSE afterLoads(afterLoad(S, p, Head(kinds)), p, Tail(kinds))

RECURSIVE resolveAll(_, _, _)
resolveAll(S, p, recs) ==
    IF recs = <<>> THEN S
    ELSE resolveAll(loadAfterMetadata(S, p, Head(recs)), p, Tail(recs))

RECURSIVE rejectAll(_, _, _)
rejectAll(S, p, recs) ==
    IF recs = <<>> THEN S
    ELSE rejectAll(loadAfterError(S, p, Head(recs)), p, Tail(recs))

IsMeta(rec) == rec.stage = "meta"

\* Listeners that stay subscribed after they fired.
takeWaiting_keeps(S, p) == S

\* The one-shot listeners of the pending load() calls, leaving the calls that
\* already passed the metadata wait.
takeWaiting(S, p) == [S EXCEPT !.loads[p] = SelectSeq(@, LAMBDA r : ~IsMeta(r))]

\* loadTrack(url, title, subtitle, options), up to `await this.load(url)`.
loadTrack(S, p, url, w) ==
    LET S1 == IF S.pl[p].isPlaying THEN pause(S, p) ELSE S
        S2 == audioSetSrc(S1, p, NoUrl)
        S3 == [S2 EXCEPT !.pl[p].hasError = FALSE,
                         !.pl[p].errorShown = FALSE,
                         !.pl[p].canvasDimmed = FALSE,
                         !.pl[p].playBtnDisabled = FALSE,
                         !.pl[p].progress = 0,
                         !.pl[p].waveformData = EmptyEnvelope,
                         !.opt[p].url = url,
                         !.opt[p].waveform = IF w = "none" THEN @
                                             ELSE [data |-> w, url |-> url]]
    IN load(Note(S3, "loadTrack", p), p, url, "track")

\* ------------------------------------------------ playlist navigation

selectTrack(S, index) ==
    IF index < 0 \/ index >= S.plist.ntracks THEN S
    ELSE loadTrack([S EXCEPT !.plist.currentTrackIndex = index,
                             !.plist.currentChapterIndex = -1],
                   S.plist.player, TrackUrls[index + 1], "none")

\* onTrackEnd that advances whatever the continuous option says.
onTrackEnd_ignoresContinuous(S) ==
    LET S1 == updateActiveChapter([S EXCEPT !.plist.currentChapterIndex = -1], 0)
    IN IF ~S1.threw /\ S.plist.currentTrackIndex < S.plist.ntracks - 1
       THEN selectTrack(S1, S.plist.currentTrackIndex + 1)
       ELSE S1

onTrackEnd(S) ==
    LET S1 == updateActiveChapter([S EXCEPT !.plist.currentChapterIndex = -1], 0)
    IN IF ~S1.threw /\ S.plist.options["continuous"] = "true"
          /\ S.plist.currentTrackIndex < S.plist.ntracks - 1
       THEN selectTrack(S1, S.plist.currentTrackIndex + 1)
       ELSE S1

\* nextTrack that goes back to the first track after the last one.
nextTrack_wraps(S) ==
    selectTrack(S, (S.plist.currentTrackIndex + 1) % S.plist.ntracks)

nextTrack(S) ==
    IF S.plist.currentTrackIndex < S.plist.ntracks - 1
    THEN selectTrack(S, S.plist.currentTrackIndex + 1)
    ELSE S

previousTrack(S) ==
    IF S.plist.currentTrackIndex > 0
    THEN selectTrack(S, S.plist.currentTrackIndex - 1)
    ELSE S

\* this.player.seekTo(time); if (!this.player.isPlaying) this.player.play();
seekAndPlay(S, time) ==
    LET p == S.plist.player
    IN IF p = NoPlayer THEN Throw(S, S.plist.callbacks)
       ELSE LET S1 == seekTo(S, p, time)
            IN IF S1.pl[p].isPlaying THEN S1 ELSE play(S1, p)

\* seekToChapter(trackIndex, time): on another track the seek waits in a timer.
seekToChapter(S, trackIndex, time) ==
    IF trackIndex # S.plist.currentTrackIndex
    THEN [selectTrack(S, trackIndex) EXCEPT
             !.plist.timers = Append(@, time),
             !.plist.sought = [track |-> trackIndex, time |-> time]]
    ELSE seekAndPlay([S EXCEPT !.plist.sought = NoSought], time)

\* The callback seekToChapter gave to setTimeout.
timerCallback(S) ==
    seekAndPlay([S EXCEPT !.plist.timers = Tail(@)], Head(S.plist.timers))

\* The keys '1'..'9'; parseInt(e.key) is the position of the key in this list.
DigitKeys == <<"1", "2", "3", "4", "5", "6", "7", "8", "9">>

\* The keydown listener of bindKeyboard, the focus being in the playlist.
keydown(S, key) ==
    IF S.plist.ntracks <= 1 THEN S
    ELSE IF key = "n" THEN nextTrack(S)
    ELSE IF key = "p" THEN previousTrack(S)
    ELSE IF \E i \in 1..Len(DigitKeys) : DigitKeys[i] = key
    THEN LET index == (CHOOSE i \in 1..Len(DigitKeys) : DigitKeys[i] = key) - 1
         IN IF index < S.plist.ntracks THEN selectTrack(S, index) ELSE S
    ELSE S

\* onEnded that leaves the progress where it was.
onEnded_keepsProgress(S, p) ==
    LET S0 == onPause([S EXCEPT !.au[p].currentTime = 0], p)
        S1 == Note(S0, "onEnd", p)
    IN IF S0.threw THEN S0 ELSE IF Owned(S1, p) THEN onTrackEnd(S1) ELSE S1

onEnded(S, p) ==
    LET S0 == onPause([S EXCEPT !.pl[p].progress = 0, !.au[p].currentTime = 0], p)
        S1 == Note(S0, "onEnd", p)
    IN IF S0.threw THEN S0 ELSE IF Owned(S1, p) THEN onTrackEnd(S1) ELSE S1

\* --------------------------------------------------- the instance registry

\* The printable ASCII characters from the space (code 32) to "_" (95), and
\* from "a" (97) to "~" (126).
AsciiLow == " !\"#$%&'(" \o ")*+,-./0123456789:;<=>?@ABCDEFGHIJKLMNOPQRSTUVWXYZ[\\]^_"

AsciiHigh == "abcdefghijklmnopqrstuvwxyz{|}~"

charCodeAt(c) ==
    IF \E i \in 1..Len(AsciiLow) : SubSeq(AsciiLow, i, i) = c
    THEN 31 + (CHOOSE i \in 1..Len(AsciiLow) : SubSeq(AsciiLow, i, i) = c)
    ELSE 96 + (CHOOSE i \in 1..Len(AsciiHigh) : SubSeq(AsciiHigh, i, i) = c)

Base64 == "ABCDEFGHIJKLMNOPQRSTUVWXYZabcdefghijklmnopqrstuvwxyz0123456789+/"

sextet(n) == SubSeq(Base64, (n % 64) + 1, (n % 64) + 1)

\* btoa(s): three bytes give four characters; a last group of one or two bytes
\* is padded with "=".
RECURSIVE btoa(_)
btoa(s) ==
    LET byte(i) == charCodeAt(SubSeq(s, i, i)) IN
    IF Len(s) = 0 THEN ""
    ELSE IF Len(s) = 1
    THEN LET n == byte(1) * 65536
         IN sextet(n \div 262144) \o sextet(n \div 4096) \o "=="
    ELSE IF Len(s) = 2
    THEN LET n == byte(1) * 65536 + byte(2) * 256
         IN sextet(n \div 262144) \o sextet(n \div 4096) \o sextet(n \div 64) \o "="
    ELSE LET n == byte(1) * 65536 + byte(2) * 256 + byte(3)
         IN sextet(n \div 262144) \o sextet(n \div 4096) \o sextet(n \div 64)
                \o sextet(n) \o btoa(SubSeq(s, 4, Len(s)))

isAlnum(c) == \E i \in 1..62 : SubSeq(Base64, i, i) = c

\* replace(/[^a-zA-Z0-9]/g, '')
RECURSIVE stripNonAlnum(_)
stripNonAlnum(s) ==
    IF Len(s) = 0 THEN ""
    ELSE (IF isAlnum(SubSeq(s, 1, 1)) THEN SubSeq(s, 1, 1) ELSE "")
             \o stripNonAlnum(SubSeq(s, 2, Len(s)))

substring(s, from, to) == SubSeq(s, from + 1, Min(to, Len(s)))

\* generateId(url): random is what Math.random().toString() gives when there
\* is no url.
generateId(url, random) ==
    LET str == IF url # NoUrl THEN url ELSE random
    IN stripNonAlnum(btoa(substring(str, 0, 10)))

NoId == ""

\* WaveformPlayer.instances: the entries [id, player] of the Map, in the order
\* of their insertion.
mapSet(m, id, p) ==
    IF \E i \in 1..Len(m) : m[i][1] = id
    THEN [i \in 1..Len(m) |-> IF m[i][1] = id THEN <<id, p>> ELSE m[i]]
    ELSE Append(m, <<id, p>>)

mapDelete(m, id) == SelectSeq(m, LAMBDA e : e[1] # id)

mapGet(m, id) ==
    IF \E i \in 1..Len(m) : m[i][1] = id
    THEN m[CHOOSE i \in 1..Len(m) : m[i][1] = id][2]
    ELSE NoPlayer

mapValues(m) == [i \in 1..Len(m) |-> m[i][2]]

\* The constructor: this.id = this.container.id || generateId(this.options.url);
\* WaveformPlayer.instances.set(this.id, this); this.init().
construct(S, p, containerId, url, random) ==
    LET id == IF containerId # NoId THEN containerId ELSE generateId(url, random)
    IN [S EXCEPT !.inst = @ \cup {p},
                 !.opt[p].url = url,
                 !.reg.id[p] = id,
                 !.reg.container[p] = containerId,
                 !.reg.map = mapSet(@, id, p)]

destroy(S, p) ==
    LET S1 == stopSmoothUpdate(pause(S, p), p)
    IN Note(audioSetSrc([S1 EXCEPT !.inst = @ \ {p},
                                   !.reg.map = mapDelete(@, S.reg.id[p])],
                        p, NoUrl),
            "destroy", p)

\* WaveformPlaylist.destroy()
playlistDestroy(S) ==
    LET S1 == IF S.plist.player # NoPlayer THEN destroy(S, S.plist.player) ELSE S
    IN [S1 EXCEPT !.plist.player = NoPlayer, !.plist.ntracks = 0]

\* getAllInstances(): the players in the instance registry.
getAllInstances(S) == {S.reg.map[i][2] : i \in 1..Len(S.reg.map)}

\* getInstance(id), for a string: the player registered under id, else the
\* registered player whose container is the element with that id.
getInstance(S, id) ==
    IF mapGet(S.reg.map, id) # NoPlayer THEN mapGet(S.reg.map, id)
    ELSE IF \E p \in getAllInstances(S) : S.reg.container[p] = id
    THEN CHOOSE p \in getAllInstances(S) : S.reg.container[p] = id
    ELSE NoPlayer

\* The order in which the page constructs its players.
InstanceOrder == <<"p1", "p2">>

\* The registry after the players ps were constructed in containers that have
\* their own ids.
Registered(ps) ==
    [id |-> [p \in AllPlayers |-> IF p \in ps THEN p ELSE NoId],
     container |-> [p \in AllPlayers |-> IF p \in ps THEN p ELSE NoId],
     map |-> SelectSeq([i \in 1..Len(InstanceOrder) |->
                           <<InstanceOrder[i], InstanceOrder[i]>>],
                       LAMBDA e : e[2] \in ps)]

RECURSIVE destroyEach(_, _)
destroyEach(S, ps) ==
    IF ps = <<>> THEN S
    ELSE destroyEach(destroy(S, Head(ps)), Tail(ps))

destroyAll(S) ==
    [destroyEach(S, mapValues(S.reg.map)) EXCEPT !.reg.map = <<>>]

\* WaveformPlayer has no static pauseAll: the call throws a TypeError and
\* nothing is changed.
pauseAll(S) == S

\* ---------------------------------------------------------------- observer

\* A takeover begins when play() is called on a while another player b holds
\* currentlyPlaying and its media is playing; n counts the events then
\* outstanding, and the observer follows what is notified until they are
\* delivered.
Running(p) == ~audio[p].paused /\ audio[p].media \notin {"failed", "broken"}

TakeoverBy(a) ==
    /\ currentlyPlaying \notin {NoPlayer, a}
    /\ Running(currentlyPlaying)

TkDelivered(S) ==
    IF tk.a = NoPlayer \/ tk.n = 0 THEN NoTk
    ELSE LET pb == tk.pausedB \/ NotedIn(S.notes, "onPause", tk.b) IN
         [tk EXCEPT !.n = @ - 1,
                    !.pausedB = pb,
                    !.order = IF @ = "none" /\ NotedIn(S.notes, "onPlay", tk.a)
                              THEN (IF pb THEN "pauseFirst" ELSE "playFirst")
                              ELSE @]

TkOther(S) == IF tk.n = 0 \/ S.cancelled THEN NoTk ELSE tk

Commit(S, t) ==
    /\ instances' = S.inst
    /\ registry' = S.reg
    /\ currentlyPlaying' = S.cp
    /\ players' = S.pl
    /\ options' = S.opt
    /\ audio' = S.au
    /\ loads' = S.loads
    /\ raf' = S.raf
    /\ queue' = S.q
    /\ notes' = S.notes
    /\ call' = S.call
    /\ playlist' = S.plist
    /\ calc' = calc
    /\ tk' = t

\* ---------------------------------------------------------------- actions

CanCall(p) == p \in instances /\ Len(queue) < MaxQueue

\* init(): the first animation frame loads options.url when there is one.
InitFrame(p) ==
    /\ initPending[p]
    /\ Len(queue) < MaxQueue
    /\ Len(loads[p]) < MaxLoads
    /\ initPending' = [initPending EXCEPT ![p] = FALSE]
    /\ LET S == IF options[p].url # NoUrl THEN load(Cur, p, options[p].url, "init")
                ELSE Cur
       IN Commit(S, TkOther(S))

Play(p) ==
    /\ CanCall(p)
    /\ UNCHANGED initPending
    /\ LET S == play(Cur, p) IN
       Commit(S, IF TakeoverBy(p)
                 THEN [a |-> p, b |-> currentlyPlaying, n |-> Len(S.q),
                       pausedB |-> FALSE, order |-> "none"]
                 ELSE TkOther(S))

Pause(p) ==
    /\ CanCall(p)
    /\ UNCHANGED initPending
    /\ LET S == pause(Cur, p) IN Commit(S, TkOther(S))

TogglePlay(p) ==
    /\ CanCall(p)
    /\ UNCHANGED initPending
    /\ LET S == togglePlay(Cur, p) IN Commit(S, TkOther(S))

Load(p, url) ==
    /\ CanCall(p)
    /\ Len(loads[p]) < MaxLoads
    /\ UNCHANGED initPending
    /\ LET S == load(Cur, p, url, "load") IN Commit(S, TkOther(S))

LoadTrack(p, url, w) ==
    /\ CanCall(p)
    /\ Len(loads[p]) < MaxLoads
    /\ UNCHANGED initPending
    /\ LET S == loadTrack(Cur, p, url, w) IN Commit(S, TkOther(S))

SeekTo(p, seconds) ==
    /\ CanCall(p)
    /\ UNCHANGED initPending
    /\ LET S == Called(seekTo(Cur, p, seconds), "seekTo", p, seconds)
       IN Commit(S, TkOther(S))

SeekToPercent(p, percent) ==
    /\ CanCall(p)
    /\ UNCHANGED initPending
    /\ LET S == Called(seekToPercent(Cur, p, percent), "seekToPercent", p, percent)
       IN Commit(S, TkOther(S))

Destroy(p) ==
    /\ CanCall(p)
    /\ UNCHANGED initPending
    /\ LET S == destroy(Cur, p) IN Commit(S, TkOther(S))

\* --- the playlist's public methods and its keyboard listener

CanNavigate ==
    /\ playlist.player \in instances
    /\ Len(queue) < MaxQueue
    /\ Len(loads[playlist.player]) < MaxLoads

SelectTrack(index) ==
    /\ CanNavigate
    /\ UNCHANGED initPending
    /\ LET S == Called(selectTrack(Cur, index), "selectTrack", playlist.player, index)
       IN Commit(S, TkOther(S))

NextTrack ==
    /\ CanNavigate
    /\ UNCHANGED initPending
    /\ LET S == Called(nextTrack(Cur), "nextTrack", playlist.player, 0)
       IN Commit(S, TkOther(S))

PreviousTrack ==
    /\ CanNavigate
    /\ UNCHANGED initPending
    /\ LET S == Called(previousTrack(Cur), "previousTrack", playlist.player, 0)
       IN Commit(S, TkOther(S))

KeyDown(key) ==
    /\ CanNavigate
    /\ UNCHANGED initPending
    /\ LET S == Called(keydown(Cur, key), "keydown", playlist.player, 0)
       IN Commit(S, TkOther(S))

\* At most MaxTimers seekToChapter timers are pending.
MaxTimers == 1

\* seekToChapter(trackIndex, time), by a click on a chapter or by the page.
SeekToChapter(trackIndex, time) ==
    /\ CanNavigate
    /\ Len(playlist.timers) < MaxTimers
    /\ UNCHANGED initPending
    /\ LET S == Called(seekToChapter(Cur, trackIndex, time),
                       "seekToChapter", playlist.player, trackIndex)
       IN Commit(S, TkOther(S))

\* 100 ms have passed since a cross-track seekToChapter.
ChapterTimer ==
    /\ playlist.timers # <<>>
    /\ Len(queue) < MaxQueue
    /\ UNCHANGED initPending
    /\ LET S == timerCallback(Cur) IN Commit(S, TkOther(S))

PlaylistDestroy ==
    /\ playlist.player \in instances
    /\ Len(queue) < MaxQueue
    /\ UNCHANGED initPending
    /\ LET S == Called(playlistDestroy(Cur), "playlistDestroy", playlist.player, 0)
       IN Commit(S, TkOther(S))

\* new WaveformPlaylist(container, options): the options are parsed.
NewPlaylist ==
    /\ playlist.player = NoPlayer /\ playlist.options = UnsetOptions
    /\ UNCHANGED initPending
    /\ LET S == [Cur EXCEPT !.plist.options =
                     parseOptions(playlist.dataset, playlist.provided)]
       IN Commit(S, TkOther(S))

DestroyAll ==
    /\ Len(queue) < MaxQueue
    /\ UNCHANGED initPending
    /\ LET S == Called(destroyAll(Cur), "destroyAll", NoPlayer, 0)
       IN Commit(S, TkOther(S))

PauseAll ==
    /\ Len(queue) < MaxQueue
    /\ UNCHANGED initPending
    /\ LET S == Called(pauseAll(Cur), "pauseAll", NoPlayer, 0)
       IN Commit(S, TkOther(S))

\* --- the listeners bindEvents and load() registered, per media event

\* loadedmetadata: onMetadataLoaded (time display and markers only), then the
\* metadataHandler of every load() waiting, then their continuations.
handleLoadedMetadata(S, p) ==
    LET waiting == SelectSeq(S.loads[p], IsMeta)
        S1 == resolveAll(takeWaiting(S, p), p, waiting)
    IN afterLoads(S1, p, S1.done)

\* error: onError, then the errorHandler of every load() waiting, then their
\* catch blocks and continuations.
handleError(S, p) ==
    LET waiting == SelectSeq(S.loads[p], IsMeta)
        S1 == rejectAll(takeWaiting(onError(S, p), p), p, waiting)
    IN afterLoads(S1, p, S1.done)

\* --- events queued by the page's calls

HeadIs(ev) == queue # <<>> /\ Head(queue).ev = ev

Popped == [Cur EXCEPT !.q = Tail(@)]

DeliverLoadStart ==
    /\ HeadIs("loadstart")
    /\ UNCHANGED initPending
    /\ LET S == setLoading(Popped, Head(queue).p, TRUE) IN Commit(S, TkDelivered(S))

DeliverPlay ==
    /\ HeadIs("play")
    /\ UNCHANGED initPending
    /\ LET S == onPlay(Popped, Head(queue).p) IN Commit(S, TkDelivered(S))

DeliverPause ==
    /\ HeadIs("pause")
    /\ UNCHANGED initPending
    /\ LET S == onPause(Popped, Head(queue).p) IN Commit(S, TkDelivered(S))

\* --- events the media resource raises

MediaLoadedMetadata(p) ==
    /\ queue = <<>>
    /\ audio[p].media = "loading" /\ audio[p].src # NoUrl
    /\ UNCHANGED initPending
    /\ LET S == handleLoadedMetadata([Cur EXCEPT !.au[p].media = "ready",
                                                 !.au[p].canplayDue = TRUE], p)
       IN Commit(S, TkOther(S))

MediaCanPlay(p) ==
    /\ queue = <<>>
    /\ audio[p].media = "ready" /\ audio[p].canplayDue
    /\ UNCHANGED initPending
    /\ LET S == setLoading([Cur EXCEPT !.au[p].canplayDue = FALSE], p, FALSE)
       IN Commit(S, TkOther(S))

\* The source cannot be loaded ("failed"), or a loaded one breaks ("broken").
MediaError(p) ==
    /\ queue = <<>>
    /\ audio[p].media \in {"loading", "ready"}
    /\ UNCHANGED initPending
    /\ LET S == handleError([Cur EXCEPT !.au[p].media =
                                IF @ = "loading" THEN "failed" ELSE "broken"], p)
       IN Commit(S, TkOther(S))

\* Playback moves on to position t; when the position reaches the end of the
\* track (by playing, or by a seek to the end) the element pauses itself if it
\* was playing and raises pause, then ended.
Advance(p, t) ==
    /\ queue = <<>>
    /\ audio[p].media = "ready"
    /\ \/ ~audio[p].paused /\ t > audio[p].currentTime
       \/ t = Duration /\ audio[p].currentTime = Duration
    /\ UNCHANGED initPending
    /\ LET S0 == [Cur EXCEPT !.au[p].currentTime = t]
           S == IF t # Duration THEN S0
                ELSE IF audio[p].paused THEN onEnded(S0, p)
                ELSE onEnded(Caught(onPause([S0 EXCEPT !.au[p].paused = TRUE], p)), p)
       IN Commit(S, TkOther(S))

\* --- the animation frame callback `update` of startSmoothUpdate
RafCallback(p) ==
    /\ raf[p] # <<>>
    /\ UNCHANGED initPending
    /\ LET S0 == [Cur EXCEPT !.raf[p] = Tail(@),
                             !.pl[p].updateTimer =
                                 IF Head(raf[p]) THEN "stale" ELSE @]
           S1 == updateProgress(S0, p)
           S == IF S0.pl[p].isPlaying /\ duration(S0.au[p]) # 0
                THEN (IF S1.threw THEN S1 ELSE requestFrame(S1, p))
                ELSE S0
       IN Commit(S, TkOther(S))

\* --- generateWaveform settles for a load() that awaits it
AnalysisDone(p, i, outcome) ==
    /\ i \in 1..Len(loads[p])
    /\ loads[p][i].stage = "analysis"
    /\ outcome = "peaksAndBpm" => options[p].showBPM
    /\ Len(queue) < MaxQueue
    /\ UNCHANGED initPending
    /\ LET rec == loads[p][i]
           S0 == [Cur EXCEPT !.loads[p] =
                      SubSeq(@, 1, i - 1) \o SubSeq(@, i + 1, Len(@))]
           S1 == loadAfterAnalysis(S0, p, rec, outcome)
           S == afterLoads(S1, p, S1.done)
       IN Commit(S, TkOther(S))

\* ------------------------------------------------------- specifications

DefaultOptions ==
    [singlePlay |-> TRUE, autoplay |-> FALSE, showBPM |-> FALSE, url |-> NoUrl,
     waveform |-> NoWaveform]

InitPlayers ==
    /\ currentlyPlaying = NoPlayer
    /\ players = [p \in AllPlayers |-> NewPlayer]
    /\ audio = [p \in AllPlayers |-> NewAudio]
    /\ loads = [p \in AllPlayers |-> <<>>]
    /\ raf = [p \in AllPlayers |-> <<>>]
    /\ queue = <<>>
    /\ notes = <<>>
    /\ call = NoCall
    /\ calc = NoCalc
    /\ tk = NoTk

InitCommon ==
    /\ InitPlayers
    /\ playlist = NoPlaylist

Deliver ==
    \/ DeliverLoadStart
    \/ DeliverPlay
    \/ DeliverPause

\* One player showing its BPM, constructed with or without a url, autoplay and
\* a pre-supplied waveform.
One == {"p1"}

Init ==
    /\ InitCommon
    /\ instances = One
    /\ registry = Registered(One)
    /\ initPending = [p \in AllPlayers |-> p \in One]
    /\ \E u \in {NoUrl, "a.mp3"}, ap \in BOOLEAN, w \in {"none", "array", "jsonObject"} :
          options = [p \in AllPlayers |->
                        IF p \in One
                        THEN [DefaultOptions EXCEPT
                                 !.url = u, !.autoplay = ap, !.showBPM = TRUE,
                                 !.waveform = IF w = "none" \/ u = NoUrl THEN NoWaveform
                                              ELSE [data |-> w, url |-> u]]
                        ELSE DefaultOptions]

Next ==
    \/ Deliver
    \/ \E p \in One :
        \/ InitFrame(p)
        \/ Play(p)
        \/ Pause(p)
        \/ TogglePlay(p)
        \/ Load(p, "b.mp3")
        \/ \E w \in {"none", "csv", "object"} : LoadTrack(p, "b.mp3", w)
        \/ Destroy(p)
        \/ RafCallback(p)
        \/ \E i \in 1..MaxLoads, o \in {"failed", "peaks", "peaksAndBpm"} :
              AnalysisDone(p, i, o)
        \/ MediaLoadedMetadata(p)
        \/ MediaCanPlay(p)
        \/ MediaError(p)
        \/ \E t \in {1000, Duration} : Advance(p, t)

Spec == Init /\ [][Next]_vars

\* Two players, the first in single-play mode or not, each with a track and a
\* pre-supplied envelope; playback runs to the end of a track in one step.
InitMulti ==
    /\ InitCommon
    /\ instances = AllPlayers
    /\ registry = Registered(AllPlayers)
    /\ initPending = [p \in AllPlayers |-> TRUE]
    /\ \E sp \in BOOLEAN :
          options = [p \in AllPlayers |->
                        [DefaultOptions EXCEPT
                            !.singlePlay = (sp \/ p # "p1"), !.url = "a.mp3",
                            !.waveform = [data |-> "array", url |-> "a.mp3"]]]

NextMulti ==
    \/ Deliver
    \/ \E p \in AllPlayers :
        \/ InitFrame(p)
        \/ Play(p)
        \/ Pause(p)
        \/ TogglePlay(p)
        \/ LoadTrack(p, "a.mp3", "none")
        \/ Destroy(p)
        \/ MediaLoadedMetadata(p)
        \/ MediaCanPlay(p)
        \/ MediaError(p)
        \/ Advance(p, Duration)

SpecMulti == InitMulti /\ [][NextMulti]_vars

\* One player with a track and a pre-supplied envelope, sought while loading,
\* ready, playing and paused.
SeekInputs == {-5, 0, 1, 3, 1000, Duration - 1, Duration, Duration + 5}

PercentInputs == {-500, 0, 500, PercentDen, PercentDen + 500}

InitSeek ==
    /\ InitCommon
    /\ instances = One
    /\ registry = Registered(One)
    /\ initPending = [p \in AllPlayers |-> p \in One]
    /\ options = [p \in AllPlayers |->
                     IF p \in One
                     THEN [DefaultOptions EXCEPT
                              !.url = "a.mp3",
                              !.waveform = [data |-> "array", url |-> "a.mp3"]]
                     ELSE DefaultOptions]

NextSeek ==
    \/ Deliver
    \/ \E p \in One :
        \/ InitFrame(p)
        \/ Play(p)
        \/ Pause(p)
        \/ Load(p, "b.mp3")
        \/ \E s \in SeekInputs : SeekTo(p, s)
        \/ \E pc \in PercentInputs : SeekToPercent(p, pc)
        \/ RafCallback(p)
        \/ MediaLoadedMetadata(p)
        \/ MediaError(p)
        \/ \E t \in {1, 1000, Duration} : Advance(p, t)

SpecSeek == InitSeek /\ [][NextSeek]_vars

\* Two players as in SpecMulti, with the static methods of the class.
NextRegistry ==
    \/ NextMulti
    \/ DestroyAll
    \/ PauseAll

SpecRegistry == InitMulti /\ [][NextRegistry]_vars

\* A playlist of one player and one or MaxTracks tracks, continuous or not;
\* the player analyses each track it loads.
MaxTracks == 3

ContinuousOnly(c) == [UnsetOptions EXCEPT !["continuous"] = c]

InitPlaylist ==
    /\ InitPlayers
    /\ instances = One
    /\ registry = Registered(One)
    /\ initPending = [p \in AllPlayers |-> p \in One]
    /\ options = [p \in AllPlayers |->
                     IF p \in One THEN [DefaultOptions EXCEPT !.url = TrackUrls[1]]
                     ELSE DefaultOptions]
    /\ \E n \in {1, MaxTracks}, c \in {Unset, "true"} :
          playlist = [NoPlaylist EXCEPT
                         !.player = "p1", !.callbacks = "p1", !.ntracks = n,
                         !.provided = ContinuousOnly(c),
                         !.options = parseOptions(UnsetOptions, ContinuousOnly(c))]

KeyInputs == {"n", "p", "1", "3", "9"}

\* The page plays, pauses and navigates the playlist. Waveform analysis succeeds.
NextPlaylist ==
    \/ Deliver
    \/ NextTrack
    \/ PreviousTrack
    \/ \E i \in -1..MaxTracks : SelectTrack(i)
    \/ \E k \in KeyInputs : KeyDown(k)
    \/ \E p \in One :
        \/ InitFrame(p)
        \/ Play(p)
        \/ Pause(p)
        \/ RafCallback(p)
        \/ \E i \in 1..(MaxLoads + 1) : AnalysisDone(p, i, "peaks")
        \/ MediaLoadedMetadata(p)
        \/ MediaError(p)
        \/ \E t \in {1000, Duration} : Advance(p, t)

SpecPlaylist == InitPlaylist /\ [][NextPlaylist]_vars

\* The page seeks to chapters of the playlist's tracks and may destroy the
\* playlist, once the player's first frame has run. The media load and the
\* waveform analysis succeed; the media position moves only by seeking.
SeekTimes == {1000, Duration + 1000}

NextChapters ==
    \/ DeliverLoadStart
    \/ DeliverPlay
    \/ \E i \in 0..(playlist.ntracks - 1), t \in SeekTimes :
          ~initPending["p1"] /\ SeekToChapter(i, t)
    \/ ChapterTimer
    \/ PlaylistDestroy
    \/ \E p \in One :
        \/ InitFrame(p)
        \/ RafCallback(p)
        \/ \E i \in 1..(MaxLoads + 1) : AnalysisDone(p, i, "peaks")
        \/ MediaLoadedMetadata(p)

SpecChapters == InitPlaylist /\ [][NextChapters]_vars

\* The playlist constructor's option parsing, over containers with and
\* without data attributes and over the options a caller may pass.
Datasets ==
    { UnsetOptions,
      [UnsetOptions EXCEPT !["layout"] = "minimal", !["continuous"] = "true"],
      [o \in OptionNames |->
          IF o = "layout" THEN "list"
          ELSE IF o = "chapterMarkerColor" THEN "blue" ELSE "false"] }

ProvidedOptions ==
    { f \in [OptionNames -> {Unset, "true", "false", "null", "list", "minimal", "red"}] :
        /\ f["layout"] \in {Unset, "list", "minimal"}
        /\ f["chapterMarkerColor"] \in {Unset, "red"}
        /\ f["showChapterMarkers"] \in {Unset, "true", "false", "null"}
        /\ \A o \in {"continuous", "expandChapters", "showDuration", "showPlayState"} :
               f[o] \in {Unset, "true", "false"} }

InitOptions ==
    /\ InitPlayers
    /\ instances = {}
    /\ registry = Registered({})
    /\ initPending = [p \in AllPlayers |-> FALSE]
    /\ options = [p \in AllPlayers |-> DefaultOptions]
    /\ \E d \in Datasets, o \in ProvidedOptions :
          playlist = [NoPlaylist EXCEPT !.dataset = d, !.provided = o]

NextOptions == NewPlaylist

SpecOptions == InitOptions /\ [][NextOptions]_vars

\* One player whose track loads without error, played and paused by the page.
\* Animation-frame callbacks that are scheduled do run, and queued media events
\* are delivered; how far the media advances is not the program's doing.
NextPolling ==
    \/ Deliver
    \/ \E p \in One :
        \/ InitFrame(p)
        \/ Play(p)
        \/ Pause(p)
        \/ RafCallback(p)
        \/ MediaLoadedMetadata(p)
        \/ \E t \in {1, 1000, Duration} : Advance(p, t)

SpecPolling ==
    /\ InitSeek
    /\ [][NextPolling]_vars
    /\ WF_vars(Deliver)
    /\ WF_vars(RafCallback("p1"))

\* The page constructs players in containers with and without an id, for urls
\* that share their first characters or not, or for no url, and destroys them.
IdUrls == {"https://cdn.example.org/a.mp3", "https://cdn.example.org/b.mp3",
           "/media/c.mp3", NoUrl}

\* The values of Math.random().toString(), call after call.
RandomTexts == <<"0.8431765239", "0.1259904387">>

\* new WaveformPlayer(container, {url}): registered, init() called.
Construct(p, containerId, url) ==
    /\ registry.id[p] = NoId
    /\ initPending' = [initPending EXCEPT ![p] = TRUE]
    /\ LET made == Cardinality({q \in AllPlayers : registry.id[q] # NoId})
           S == construct(Cur, p, containerId, url, RandomTexts[made + 1])
       IN Commit(S, TkOther(S))

InitIds ==
    /\ InitCommon
    /\ instances = {}
    /\ registry = Registered({})
    /\ initPending = [p \in AllPlayers |-> FALSE]
    /\ options = [p \in AllPlayers |-> DefaultOptions]

NextIds ==
    \/ DeliverLoadStart
    \/ \E p \in AllPlayers :
        \/ \E c \in {NoId, p}, u \in IdUrls : Construct(p, c, u)
        \/ Destroy(p)

SpecIds == InitIds /\ [][NextIds]_vars

\* =========================================================== library functions

\* The page while a library function is analysed: no player is constructed.
IdlePage ==
    /\ instances = {}
    /\ registry = Registered({})
    /\ currentlyPlaying = NoPlayer
    /\ players = [p \in AllPlayers |-> NewPlayer]
    /\ options = [p \in AllPlayers |-> DefaultOptions]
    /\ audio = [p \in AllPlayers |-> NewAudio]
    /\ loads = [p \in AllPlayers |-> <<>>]
    /\ raf = [p \in AllPlayers |-> <<>>]
    /\ initPending = [p \in AllPlayers |-> FALSE]
    /\ queue = <<>>
    /\ notes = <<>>
    /\ call = NoCall
    /\ playlist = NoPlaylist
    /\ tk = NoTk

pageVars == <<instances, registry, currentlyPlaying, players, options, audio, loads, raf,
              initPending, queue, notes, call, playlist, tk>>

\* The call fn(calc.in) returns: its result is recorded.
Apply(fn, result) ==
    /\ calc.fn = "none"
    /\ calc' = [calc EXCEPT !.fn = fn, !.out = result]
    /\ UNCHANGED pageVars

\* JavaScript numbers, as exact fractions n/d with d > 0.
Q(n, d) == [n |-> n, d |-> d]

QEq(a, b) == a.n * b.d = b.n * a.d

QLe(a, b) == a.n * b.d <= b.n * a.d

QLt(a, b) == a.n * b.d < b.n * a.d

QAdd(a, b) == Q(a.n * b.d + b.n * a.d, a.d * b.d)

QSub(a, b) == Q(a.n * b.d - b.n * a.d, a.d * b.d)

QMul(a, b) == Q(a.n * b.n, a.d * b.d)

QAbs(a) == Q(IF a.n < 0 THEN 0 - a.n ELSE a.n, a.d)

\* --- resampleData (utils.js)

\* The upsampling branch without the interpolation: the sample below is taken.
upsample_nearest(data, targetLength) ==
    [k \in 1..targetLength |->
        data[(((k - 1) * (Len(data) - 1)) \div (targetLength - 1)) + 1]]

\* The upsampling branch: ratio = (len - 1) / (targetLength - 1), index = i * ratio.
upsample(data, targetLength) ==
    LET len == Len(data)
        den == targetLength - 1
        value(i) ==
            LET lower == (i * (len - 1)) \div den
                rem == (i * (len - 1)) % den
                upper == IF rem = 0 THEN lower ELSE lower + 1
                fraction == Q(rem, den)
            IN IF upper >= len THEN data[len]
               ELSE IF lower = upper THEN data[lower + 1]
               ELSE QAdd(QMul(data[lower + 1], QSub(Q(1, 1), fraction)),
                         QMul(data[upper + 1], fraction))
    IN [k \in 1..targetLength |-> value(k - 1)]

\* `let max = 0` followed by `if (data[j] > max) max = data[j]` over a bucket.
maxFromZero(values) ==
    IF \A v \in values : QLe(v, Q(0, 1)) THEN Q(0, 1)
    ELSE CHOOSE v \in values : \A w \in values : QLe(w, v)

\* The downsampling branch: bucketSize = len / targetLength; the inner loop
\* runs for j = start, ..., end while j < len.
downsample(data, targetLength) ==
    LET len == Len(data)
        value(i) ==
            LET start == (i * len) \div targetLength
                end == ((i + 1) * len) \div targetLength
                js == {j \in start..end : j < len}
                nearestIndex ==
                    Min((2 * i * len + targetLength) \div (2 * targetLength), len - 1)
            IN IF js = {} THEN data[nearestIndex + 1]
               ELSE maxFromZero({data[j + 1] : j \in js})
    IN [k \in 1..targetLength |-> value(k - 1)]

\* resampleData that returns a longer input as it is.
resampleData_neverShrinks(data, targetLength) ==
    IF Len(data) = targetLength THEN data
    ELSE IF Len(data) = 0 \/ targetLength = 0 THEN <<>>
    ELSE IF targetLength > Len(data) THEN upsample(data, targetLength)
    ELSE data

resampleData(data, targetLength) ==
    IF Len(data) = targetLength THEN data
    ELSE IF Len(data) = 0 \/ targetLength = 0 THEN <<>>
    ELSE IF targetLength > Len(data) THEN upsample(data, targetLength)
    ELSE downsample(data, targetLength)

\* Longest input and largest target length of resampleData.
MaxData == 4
MaxTarget == 5
\* Values of the input samples.
Levels == {0, 1, 3}

DataInputs == UNION {[1..k -> {Q(v, 1) : v \in Levels}] : k \in 0..MaxData}

InitResample ==
    /\ IdlePage
    /\ \E data \in DataInputs, n \in 0..MaxTarget :
          calc = [fn |-> "none", in |-> [data |-> data, targetLength |-> n],
                  out |-> <<>>]

Resample == Apply("resampleData", resampleData(calc.in.data, calc.in.targetLength))

NextResample == Resample

SpecResample == InitResample /\ [][NextResample]_vars

\* --- extractPeaks, normalizePeaks (audio.js)

QDiv(a, b) ==
    IF b.n < 0 THEN Q((0 - a.n) * b.d, a.d * (0 - b.n)) ELSE Q(a.n * b.d, a.d * b.n)

QMax(a, b) == IF QLt(a, b) THEN b ELSE a

\* A function's outcome: it returns a value or throws.
Returns(v) == [threw |-> FALSE, value |-> v]
Throws == [threw |-> TRUE, value |-> <<>>]

\* Math.max(...peaks) of a non-empty array.
maxOf(peaks) ==
    CHOOSE v \in {peaks[i] : i \in 1..Len(peaks)} :
        \A i \in 1..Len(peaks) : QLe(peaks[i], v)

\* The peak of sample window i of one channel: min and max start at 0 and
\* take chan[j] for j = start, start + sampleStep, ... below end.
windowPeak(chan, i, length, samples) ==
    LET sampleStep == IF length \div (10 * samples) = 0 THEN 1
                      ELSE length \div (10 * samples)
        start == (i * length) \div samples
        end == start + (length \div samples)
        js == {j \in start..(end - 1) : (j - start) % sampleStep = 0}
        max == maxFromZero({chan[j + 1] : j \in js})
        min == maxFromZero({QSub(Q(0, 1), chan[j + 1]) : j \in js})
    IN QMax(QAbs(max), QAbs(min))

\* peaks[i] after the loop over the channels: the largest window peak.
rawPeaks(buffer, samples) ==
    [k \in 1..samples |->
        LET ps == {windowPeak(buffer.data[c], k - 1, buffer.length, samples) :
                       c \in 1..buffer.numberOfChannels}
        IN CHOOSE v \in ps : \A w \in ps : QLe(w, v)]

\* extractPeaks that returns the peaks without dividing by the largest.
extractPeaks_unnormalised(buffer, samples) ==
    IF buffer.kind = "null" THEN Throws
    ELSE IF buffer.kind = "object" \/ samples = 0 \/ buffer.numberOfChannels = 0
    THEN Returns(<<>>)
    ELSE Returns(rawPeaks(buffer, samples))

\* extractPeaks(buffer, samples). Reading `length` of null throws; of an
\* object without the AudioBuffer fields `length` and `numberOfChannels` are
\* undefined and no loop runs; with samples = 0 the inner loop never runs. In
\* these cases peaks stays [] and Math.max() is -Infinity.
extractPeaks(buffer, samples) ==
    IF buffer.kind = "null" THEN Throws
    ELSE IF buffer.kind = "object" \/ samples = 0 \/ buffer.numberOfChannels = 0
    THEN Returns(<<>>)
    ELSE LET peaks == rawPeaks(buffer, samples)
             maxPeak == maxOf(peaks)
         IN IF QLt(Q(0, 1), maxPeak)
            THEN Returns([k \in 1..samples |-> QDiv(peaks[k], maxPeak)])
            ELSE Returns(peaks)

\* normalizePeaks(peaks, targetMax = 0.95)
TargetMax == Q(95, 100)

normalizePeaks(peaks) ==
    IF peaks = <<>> THEN peaks
    ELSE LET maxPeak == maxOf(peaks) IN
         IF QEq(maxPeak, Q(0, 1)) \/ QLt(TargetMax, maxPeak) THEN peaks
         ELSE [k \in 1..Len(peaks) |-> QMul(peaks[k], QDiv(TargetMax, maxPeak))]

\* Most frames of a decoded buffer and largest `samples` argument.
MaxFrames == 3
MaxPeaks == 3
\* Sample values of a channel.
Amplitudes == {Q(0 - 1, 1), Q(0, 1), Q(1, 2)}
ChannelCounts == {1, 2}

AudioBuffers ==
    { [kind |-> "AudioBuffer", length |-> len, numberOfChannels |-> ch, data |-> data] :
        <<len, ch, data>> \in
            UNION { {<<len, ch, data>> :
                        data \in [1..ch -> [1..len -> Amplitudes]]} :
                    <<len, ch>> \in (1..MaxFrames) \X ChannelCounts } }

\* null, and an object that is not an AudioBuffer.
MalformedBuffers ==
    { [kind |-> k, length |-> 0, numberOfChannels |-> 0, data |-> <<>>] :
        k \in {"null", "object"} }

InitPeaks ==
    /\ IdlePage
    /\ \E buffer \in AudioBuffers \cup MalformedBuffers, samples \in 0..MaxPeaks :
          calc = [fn |-> "none", in |-> [buffer |-> buffer, samples |-> samples],
                  out |-> <<>>]

ExtractPeaks == Apply("extractPeaks", extractPeaks(calc.in.buffer, calc.in.samples))

NextPeaks == ExtractPeaks

SpecPeaks == InitPeaks /\ [][NextPeaks]_vars

\* --- detectBPM, detectOnsets (bpm.js)

windowSize == 2048
hopSize == windowSize \div 2
\* Energies are held in units of 1/EnergyDen.
EnergyDen == 1000000

\* channelData is given by blocks of hopSize frames of one amplitude each, in
\* tenths of full scale; a window spans two blocks.
FrameCount(blocks) == Len(blocks) * hopSize

\* energy of the window that starts at frame k * hopSize: the mean square.
windowEnergy(blocks, k) ==
    ((blocks[k + 1] * blocks[k + 1] + blocks[k + 2] * blocks[k + 2])
        * (EnergyDen \div 100)) \div 2

\* `energyDiff > threshold && energy > 0.01` with threshold =
\* previousEnergy * 1.8 + 0.01
risesEnough(energy, previousEnergy) ==
    /\ 10 * (energy - previousEnergy) > 18 * previousEnergy + EnergyDen \div 10
    /\ 100 * energy > EnergyDen

\* previousEnergy = energy * 0.8 + previousEnergy * 0.2
smooth(energy, previousEnergy) == (8 * energy + 2 * previousEnergy) \div 10

\* `onsets[onsets.length - 1] || 0`
lastOnsetOr0(onsets) == IF onsets = <<>> THEN 0 ELSE onsets[Len(onsets)]

\* `i - lastOnset > minDistance` with minDistance = sampleRate * 0.15
farEnough(i, lastOnset, sampleRate) == 100 * (i - lastOnset) > 15 * sampleRate

\* The loop of detectOnsets from window k on.
RECURSIVE scanWindows(_, _, _, _, _)
scanWindows(blocks, sampleRate, k, previousEnergy, onsets) ==
    IF ~(k * hopSize < FrameCount(blocks) - windowSize) THEN onsets
    ELSE LET energy == windowEnergy(blocks, k)
             i == k * hopSize
             accepted == /\ risesEnough(energy, previousEnergy)
                         /\ farEnough(i, lastOnsetOr0(onsets), sampleRate)
         IN scanWindows(blocks, sampleRate, k + 1, smooth(energy, previousEnergy),
                        IF accepted THEN Append(onsets, i) ELSE onsets)

detectOnsets(blocks, sampleRate) == scanWindows(blocks, sampleRate, 0, 0, <<>>)

\* Math.round(tempo / 3) * 3 with tempo = 60 / interval and interval =
\* (onsets[i] - onsets[i - 1]) / sampleRate
bucketOf(frames, sampleRate) == ((40 * sampleRate + frames) \div (2 * frames)) * 3

\* The buckets of the intervals, in onset order, those in (60, 200) only.
votes(onsets, sampleRate) ==
    LET all == [i \in 1..(Len(onsets) - 1) |->
                   bucketOf(onsets[i + 1] - onsets[i], sampleRate)]
    IN SelectSeq(all, LAMBDA b : b > 60 /\ b < 200)

\* tempoGroups[bucket], 0 when the bucket has no entry.
countOf(vs, bucket) == Cardinality({i \in 1..Len(vs) : vs[i] = bucket})

Buckets(vs) == {vs[i] : i \in 1..Len(vs)}

\* The vote that keeps the last of the most frequent buckets.
mostCommon_lastWins(vs) ==
    IF vs = <<>> THEN 120
    ELSE CHOOSE b \in Buckets(vs) :
            /\ \A c \in Buckets(vs) : countOf(vs, c) <= countOf(vs, b)
            /\ \A c \in Buckets(vs) : countOf(vs, c) = countOf(vs, b) => c <= b

\* The loop over Object.entries(tempoGroups): the keys are integers, so they
\* are visited in ascending order, and `count > maxCount` keeps the first of
\* the most frequent ones; 120 when there is no entry.
mostCommon(vs) ==
    IF vs = <<>> THEN 120
    ELSE CHOOSE b \in Buckets(vs) :
            /\ \A c \in Buckets(vs) : countOf(vs, c) <= countOf(vs, b)
            /\ \A c \in Buckets(vs) : countOf(vs, c) = countOf(vs, b) => b <= c

\* "Handle tempo ambiguity"
resolveAmbiguity(detectedBPM, vs) ==
    IF detectedBPM < 70 /\ countOf(vs, detectedBPM * 2) > 0 THEN detectedBPM * 2
    ELSE IF detectedBPM > 160 /\ countOf(vs, (detectedBPM + 1) \div 2) > 0
    THEN (detectedBPM + 1) \div 2
    ELSE detectedBPM

\* detectBPM(buffer): the onsets found, the bucket voted (0: no vote was
\* held) and the value returned.
detectBPM(buffer) ==
    LET onsets == detectOnsets(buffer.blocks, buffer.sampleRate)
        vs == votes(onsets, buffer.sampleRate)
    IN IF Len(onsets) < 2
       THEN [onsets |-> onsets, voted |-> 0, bpm |-> 120]
       ELSE [onsets |-> onsets, voted |-> mostCommon(vs),
             bpm |-> resolveAmbiguity(mostCommon(vs), vs) - 1]

\* Longest channel, in blocks, and most bursts in it.
MaxBlocks == 17
MaxBursts == 4
\* Amplitude of the bursts of a channel, in tenths: faint or full scale.
BurstLevels == {1, 10}
SampleRates == {8000, 11025}

\* Silence with at most MaxBursts one-block bursts.
Channels ==
    UNION { { [b \in 1..n |-> IF b \in at THEN level ELSE 0] :
                at \in {s \in SUBSET (1..n) : Cardinality(s) <= MaxBursts},
                level \in BurstLevels } :
            n \in {1, 2, MaxBlocks} }

InitTempo ==
    /\ IdlePage
    /\ \E blocks \in Channels, sampleRate \in SampleRates :
          calc = [fn |-> "none", in |-> [blocks |-> blocks, sampleRate |-> sampleRate],
                  out |-> <<>>]

DetectBPM == Apply("detectBPM", detectBPM(calc.in))

NextTempo == DetectBPM

SpecTempo == InitTempo /\ [][NextTempo]_vars

\* --- setWaveformData on the value of options.waveform (core.js)

\* The characters of the strings supplied as a waveform.
Chars == {"[", "]", ",", "1", "2", "x"}

isDigit(c) == c \in {"1", "2"}

digitValue(c) == IF c = "1" THEN 1 ELSE 2

isNumberText(t) == t # <<>> /\ \A i \in 1..Len(t) : isDigit(t[i])

RECURSIVE numberValue(_)
numberValue(t) ==
    IF t = <<>> THEN 0
    ELSE 10 * numberValue(SubSeq(t, 1, Len(t) - 1)) + digitValue(t[Len(t)])

\* An element of an array: a number, NaN, or a nested array.
Num(v) == [kind |-> "number", v |-> v]
NaN == [kind |-> "NaN", v |-> 0]
Nested == [kind |-> "array", v |-> 0]

\* The pieces of t between the positions in cuts.
RECURSIVE splitFrom(_, _, _)
splitFrom(t, cuts, start) ==
    IF \E c \in cuts : c >= start
    THEN LET next == CHOOSE c \in cuts : c >= start /\ \A e \in cuts : e >= start => c <= e
         IN <<SubSeq(t, start, next - 1)>> \o splitFrom(t, cuts, next + 1)
    ELSE <<SubSeq(t, start, Len(t))>>

\* Open brackets minus closed brackets before position i.
depthAt(t, i) ==
    Cardinality({j \in 1..(i - 1) : t[j] = "["}) - Cardinality({j \in 1..(i - 1) : t[j] = "]"})

\* The texts between the commas of t that are inside no bracket.
topLevelPieces(t) ==
    splitFrom(t, {i \in 1..Len(t) : t[i] = "," /\ depthAt(t, i) = 0}, 1)

\* JSON.parse accepts t: over Chars, a JSON text is a number or an array of
\* JSON texts.
RECURSIVE isJson(_)
isJson(t) ==
    \/ isNumberText(t)
    \/ /\ Len(t) >= 2 /\ t[1] = "[" /\ t[Len(t)] = "]"
       /\ LET inner == SubSeq(t, 2, Len(t) - 1)
          IN \/ inner = <<>>
             \/ \A i \in 1..Len(topLevelPieces(inner)) : isJson(topLevelPieces(inner)[i])

\* JSON.parse(t) when t is the text of an array: its elements.
jsonArray(t) ==
    LET inner == SubSeq(t, 2, Len(t) - 1)
        pieces == topLevelPieces(inner)
    IN IF inner = <<>> THEN <<>>
       ELSE [i \in 1..Len(pieces) |->
                IF isNumberText(pieces[i]) THEN Num(numberValue(pieces[i])) ELSE Nested]

\* Number(piece): '' is 0, a numeral its value, anything else NaN.
toNumber(piece) ==
    IF piece = <<>> THEN Num(0)
    ELSE IF isNumberText(piece) THEN Num(numberValue(piece))
    ELSE NaN

\* data.split(',').map(Number)
splitNumbers(t) ==
    LET pieces == splitFrom(t, {i \in 1..Len(t) : t[i] = ","}, 1)
    IN [i \in 1..Len(pieces) |-> toNumber(pieces[i])]

\* this.waveformData after setWaveformData(data)
waveformDataOf(data) ==
    IF data.kind = "string"
    THEN IF isJson(data.text)
         THEN IF data.text[1] = "[" THEN jsonArray(data.text) ELSE <<>>
         ELSE splitNumbers(data.text)
    ELSE IF data.kind = "array" THEN data.array ELSE <<>>

\* The envelope load() ends with: the supplied one when options.waveform is
\* truthy (any array or object, any string but ''), else a generated one.
envelopeAfterLoad(data) ==
    IF data.kind = "string" /\ data.text = <<>>
    THEN [from |-> "generated", envelope |-> <<>>]
    ELSE [from |-> "supplied", envelope |-> waveformDataOf(data)]

\* Longest string and longest array supplied as a waveform.
MaxText == 5
MaxArray == 2
\* Values of a supplied array.
SuppliedValues == {1, 2, 12}

SuppliedArrays == UNION {[1..k -> SuppliedValues] : k \in 0..MaxArray}

WaveformOptions ==
    { [kind |-> "string", text |-> t, array |-> <<>>] :
        t \in UNION {[1..k -> Chars] : k \in 0..MaxText} }
    \cup { [kind |-> "array", text |-> <<>>, array |-> [i \in 1..Len(xs) |-> Num(xs[i])]] :
             xs \in SuppliedArrays }
    \cup { [kind |-> "object", text |-> <<>>, array |-> <<>>] }

InitWaveform ==
    /\ IdlePage
    /\ \E data \in WaveformOptions : calc = [fn |-> "none", in |-> data, out |-> <<>>]

LoadSupplied == Apply("load", envelopeAfterLoad(calc.in))

NextWaveform == LoadSupplied

SpecWaveform == InitWaveform /\ [][NextWaveform]_vars

\* ================================================================== claims

\* ---- C1 (as stated). When every live player is in single-play mode, at most
\* one player's media is playing, and while one is playing currentlyPlaying
\* names no player other than it.
AudiblyPlaying(p) == ~audio[p].paused /\ audio[p].media = "ready"

AllLiveSinglePlay == \A p \in instances : options[p].singlePlay

C1_Claim ==
    AllLiveSinglePlay =>
        \A p \in AllPlayers :
            AudiblyPlaying(p) =>
                /\ \A q \in AllPlayers \ {p} : ~AudiblyPlaying(q)
                /\ currentlyPlaying \in {NoPlayer, p}

\* ---- C2 (amended). When play() is called on A, which is in single-play mode,
\* while another player B holds currentlyPlaying and is playing, then once the
\* events that call queued are delivered B.isPlaying is false, and A.isPlaying
\* is true unless A's source failed to load.
TakeoverDone == tk.a # NoPlayer /\ tk.n = 0

C2_Takeover ==
    (TakeoverDone /\ options[tk.a].singlePlay) =>
        /\ ~players[tk.b].isPlaying
        /\ audio[tk.a].media # "failed" => players[tk.a].isPlaying

C2_Witness ==
    /\ TakeoverDone /\ options[tk.a].singlePlay
    /\ ~players[tk.b].isPlaying /\ players[tk.a].isPlaying
    /\ tk.pausedB

\* C2 as stated: B's single-play mode decides, and A always ends up playing.
C2_Claim ==
    (TakeoverDone /\ options[tk.b].singlePlay) =>
        /\ ~players[tk.b].isPlaying
        /\ players[tk.a].isPlaying

C4_Claim ==
    \A p \in AllPlayers :
        (Noted("onPause", p) /\ audio[p].paused) => currentlyPlaying # p

\* ---- C5 (as stated). When a load() call has settled, isLoading is false and
\* exactly one of hasError and "the envelope is non-empty" holds.
AnySettled(p) ==
    Noted("loadSettled", p) \/ Noted("trackSettled", p) \/ Noted("initSettled", p)

C5_Claim ==
    \A p \in AllPlayers :
        AnySettled(p) =>
            /\ ~players[p].isLoading
            /\ players[p].hasError # (players[p].waveformData.len > 0)

C7_ErrorEntry ==
    \A p \in AllPlayers :
        (Noted("onError", p) \/ audio[p].media \in {"failed", "broken"}) =>
            /\ players[p].hasError
            /\ ~players[p].isLoading
            /\ players[p].playBtnDisabled
            /\ players[p].canvasDimmed

C7_Witness ==
    /\ Noted("onError", "p1") /\ audio["p1"].media = "broken"
    /\ players["p1"].isPlaying
    /\ players["p1"].hasError /\ players["p1"].playBtnDisabled

\* ---- C8 (as stated). When a call of load() or loadTrack() settles with
\* onLoad and the media is loaded, nothing of an earlier error state is left:
\* hasError is false, the play button enabled, the canvas at full opacity, the
\* error indicator hidden.
C8_Claim ==
    \A p \in AllPlayers :
        /\ (Noted("loadSettled", p) \/ Noted("trackSettled", p))
        /\ Noted("onLoad", p)
        /\ audio[p].media = "ready"
        =>
            /\ ~players[p].hasError
            /\ ~players[p].playBtnDisabled
            /\ ~players[p].canvasDimmed
            /\ ~players[p].errorShown

\* ---- C9. loadTrack(url) leaves the media paused, progress 0, hasError false
\* and a load of url under way; when that load settles play() is called, the
\* player is the holder of currentlyPlaying, and loaded media is playing.
TrackLoadPending(p) ==
    \E i \in 1..Len(loads[p]) :
        /\ loads[p][i].kind = "track" /\ loads[p][i].stage = "meta"
        /\ loads[p][i].url = audio[p].src

C9_TrackReplacement ==
    \A p \in AllPlayers :
        /\ Noted("loadTrack", p) =>
               /\ audio[p].paused
               /\ players[p].progress = 0
               /\ ~players[p].hasError
               /\ players[p].isLoading
               /\ TrackLoadPending(p)
        /\ Noted("trackSettled", p) =>
               /\ Noted("autoPlay", p)
               /\ currentlyPlaying = p
               /\ audio[p].media = "ready" => ~audio[p].paused

C9_Witness ==
    /\ Noted("trackSettled", "p1") /\ Noted("onLoad", "p1")
    /\ currentlyPlaying = "p1" /\ ~audio["p1"].paused
    /\ audio["p1"].src = "b.mp3"

\* ---- C10 (as stated). At most one progress callback is scheduled per
\* player, and after a pause, an end, a media error or destroy() none is
\* scheduled and the handle is cleared.
PlaybackStopped(p) ==
    Noted("onPause", p) \/ Noted("onEnd", p) \/ Noted("onError", p)
        \/ Noted("destroy", p)

C10_Claim ==
    \A p \in AllPlayers :
        /\ Len(raf[p]) <= 1
        /\ PlaybackStopped(p) =>
               raf[p] = <<>> /\ players[p].updateTimer = "null"

\* ---- C11. With the duration known, seekTo(s) leaves the media at s when
\* 0 <= s <= duration, at duration when s is beyond it and at 0 when s is
\* negative; seekToPercent(x) leaves it at duration * x with x first brought
\* into [0, 1].
Sought(op) == call.op = op /\ duration(audio[call.p]) # 0

C11_SeekClamps ==
    /\ Sought("seekTo") =>
          LET d == duration(audio[call.p])
              ct == audio[call.p].currentTime
          IN /\ call.arg < 0 => ct = 0
             /\ call.arg > d => ct = d
             /\ (0 <= call.arg /\ call.arg <= d) => ct = call.arg
    /\ Sought("seekToPercent") =>
          LET d == duration(audio[call.p])
              ct == audio[call.p].currentTime
          IN /\ call.arg < 0 => ct = 0
             /\ call.arg > PercentDen => ct = d
             /\ (0 <= call.arg /\ call.arg <= PercentDen) =>
                    ct = (d * call.arg) \div PercentDen

C11_Witness ==
    /\ Sought("seekTo") /\ call.arg = Duration + 5
    /\ audio["p1"].currentTime = Duration
    /\ players["p1"].isPlaying

\* ---- C12. A seek with the duration known has, in the step of the call,
\* brought progress to the new position (within the redraw epsilon) and
\* notified onTimeUpdate once; a seek with the duration unknown changes nothing
\* of the player or its media.
TimeUpdates(ns, p) ==
    Cardinality({i \in 1..Len(ns) : ns[i] = <<"onTimeUpdate", p>>})

C12_SeekSynchronous ==
    [][\A p \in AllPlayers :
        (call'.p = p /\ call'.op \in {"seekTo", "seekToPercent"}) =>
            IF duration(audio[p]) # 0
            THEN /\ Abs(audio'[p].currentTime - players'[p].progress) * EpsilonDen
                        <= duration(audio[p])
                 /\ TimeUpdates(notes', p) = 1
            ELSE /\ players' = players /\ audio' = audio
                 /\ notes' = <<>> /\ queue' = queue /\ raf' = raf
                 /\ currentlyPlaying' = currentlyPlaying]_vars

C12_Witness ==
    /\ Sought("seekToPercent") /\ call.arg = 500
    /\ players["p1"].progress = Duration \div 2
    /\ Noted("onTimeUpdate", "p1")
    /\ raf["p1"] = <<>>

\* ---- C14 (amended). While a player stays in the playing state, a step that
\* is neither a seek, nor the end of the track, nor the start of a load never
\* lowers its progress, unless progress stood at the end of the track (within
\* the redraw epsilon): play() restarts such a track from 0, and the next
\* recomputation brings progress back to the start.
SteadyPlaying(p) ==
    /\ players[p].isPlaying /\ players'[p].isPlaying
    /\ call'.op \notin {"seekTo", "seekToPercent"}
    /\ ~NotedIn(notes', "onEnd", p)
    /\ ~NotedIn(notes', "load", p)

AtEnd(p) == (Duration - players[p].progress) * EpsilonDen <= Duration

C14_ProgressMonotone ==
    [][\A p \in AllPlayers :
        (SteadyPlaying(p) /\ ~AtEnd(p))
            => players'[p].progress >= players[p].progress]_vars

\* C14 as stated: no step other than a seek, the end of the track or the start
\* of a load lowers the progress of a playing player.
C14_Claim ==
    [][\A p \in AllPlayers :
        SteadyPlaying(p) => players'[p].progress >= players[p].progress]_vars

C14_Witness ==
    /\ players["p1"].isPlaying /\ Noted("onTimeUpdate", "p1")
    /\ call.op = "none"
    /\ players["p1"].progress = 1000 /\ audio["p1"].currentTime = 1000

\* ---- C15. The metadata wait of a load() call is settled once: a call waits
\* only while its source is loading, so after the metadata or the error signal
\* no subscription of it is left for a later event; and in every step each
\* pending call either stays pending or settles exactly once.
Waiting(p) == Len(SelectSeq(loads[p], IsMeta))

CountNotes(ns, what, p) == Cardinality({i \in 1..Len(ns) : ns[i] = <<what, p>>})

SettledIn(ns, p) ==
    CountNotes(ns, "loadSettled", p) + CountNotes(ns, "trackSettled", p)
        + CountNotes(ns, "initSettled", p)

C15_SettledOnce ==
    [][\A p \in AllPlayers :
        /\ audio'[p].media # "loading" => Len(SelectSeq(loads'[p], IsMeta)) = 0
        /\ Len(loads'[p]) + SettledIn(notes', p)
               = Len(loads[p]) + CountNotes(notes', "load", p)]_vars

C15_Witness ==
    /\ audio["p1"].media = "broken" /\ Noted("onError", "p1")
    /\ Len(loads["p1"]) = 1 /\ Waiting("p1") = 0
    /\ ~AnySettled("p1")

\* ---- C16 (as stated). After WaveformPlayer.pauseAll(), with no media event
\* outstanding, no player is playing and none holds currentlyPlaying.
C16_Claim ==
    (call.op = "pauseAll" /\ queue = <<>>) =>
        /\ \A p \in AllPlayers : ~players[p].isPlaying /\ audio[p].paused
        /\ currentlyPlaying = NoPlayer

\* ---- C17 (as stated). After destroy() the player is not in the instance
\* registry, does not hold currentlyPlaying and has no progress callback
\* scheduled; after destroyAll() the registry is empty and no player holds
\* currentlyPlaying.
C17_Claim ==
    /\ \A p \in AllPlayers :
          Noted("destroy", p) =>
              /\ p \notin instances
              /\ currentlyPlaying # p
              /\ raf[p] = <<>>
    /\ call.op = "destroyAll" =>
          /\ instances = {}
          /\ currentlyPlaying = NoPlayer

\* ---- C13. When the ended handler has run, progress is 0, the media position
\* is 0, the player is not playing and onEnd was notified, also when the
\* playlist's onEnd callback loaded the next track.
C13_EndResets ==
    \A p \in AllPlayers :
        Noted("onEnd", p) =>
            /\ players[p].progress = 0
            /\ audio[p].currentTime = 0
            /\ ~players[p].isPlaying

C13_Witness ==
    /\ Noted("onEnd", "p1") /\ Noted("loadTrack", "p1")
    /\ playlist.currentTrackIndex = 1
    /\ players["p1"].progress = 0 /\ ~players["p1"].isPlaying

\* ---- C18. When the current track of a playlist ends: with continuous set and
\* a track after the current one, that track becomes current and is loaded
\* into the player, and is played when its load settles; otherwise the current
\* track index stays and nothing is loaded.
TrackLoadStarted(p, url) ==
    /\ NotedIn(notes', "loadTrack", p)
    /\ audio'[p].src = url
    /\ \E i \in 1..Len(loads'[p]) :
          loads'[p][i] = [url |-> url, stage |-> "meta", kind |-> "track"]

C18_Continuous ==
    /\ [][\A p \in AllPlayers :
            (NotedIn(notes', "onEnd", p) /\ playlist.player = p) =>
                LET i == playlist.currentTrackIndex IN
                IF playlist.options["continuous"] = "true" /\ i < playlist.ntracks - 1
                THEN /\ playlist'.currentTrackIndex = i + 1
                     /\ TrackLoadStarted(p, TrackUrls[i + 2])
                ELSE /\ playlist'.currentTrackIndex = i
                     /\ ~NotedIn(notes', "load", p)
                     /\ audio'[p].src = audio[p].src
                     /\ loads'[p] = loads[p]]_vars
    /\ [](\A p \in AllPlayers :
            (Noted("trackSettled", p) /\ playlist.player = p) =>
                /\ Noted("autoPlay", p)
                /\ audio[p].media = "ready" => ~audio[p].paused)

C18_Witness ==
    /\ Noted("onEnd", "p1") /\ Noted("loadTrack", "p1")
    /\ playlist.options["continuous"] = "true"
    /\ playlist.currentTrackIndex = 2
    /\ audio["p1"].src = TrackUrls[3]

\* ---- C19. The current track index of a playlist stays within its tracks;
\* nextTrack() on the last track, previousTrack() on the first and
\* selectTrack(i) with i out of range change neither the playlist nor the
\* player and what it has loaded.
NothingSelected ==
    /\ playlist' = playlist
    /\ audio' = audio /\ loads' = loads
    /\ options' = options /\ players' = players

C19_NavigationBounds ==
    /\ [](playlist.player # NoPlayer =>
            (0 <= playlist.currentTrackIndex
                /\ playlist.currentTrackIndex <= playlist.ntracks - 1))
    /\ [][/\ (call'.op = "nextTrack"
                 /\ playlist.currentTrackIndex = playlist.ntracks - 1)
              => NothingSelected
          /\ (call'.op = "previousTrack" /\ playlist.currentTrackIndex = 0)
              => NothingSelected
          /\ (call'.op = "selectTrack"
                 /\ (call'.arg < 0 \/ call'.arg >= playlist.ntracks))
              => NothingSelected]_vars

C19_Witness ==
    /\ call.op = "nextTrack"
    /\ playlist.ntracks = MaxTracks
    /\ playlist.currentTrackIndex = MaxTracks - 1
    /\ audio["p1"].src = TrackUrls[MaxTracks]
    /\ notes = <<>>

\* ---- C20 (as stated). Every playlist option passed to the constructor of a
\* container without the corresponding data attribute is the effective option.
C20_Claim ==
    playlist.options # UnsetOptions =>
        \A o \in OptionNames :
            (playlist.dataset[o] = Unset /\ playlist.provided[o] # Unset)
                => playlist.options[o] = playlist.provided[o]

\* ---- C22. resampleData(x, n) returns x itself when len(x) = n, the empty
\* sequence when len(x) = 0 or n = 0, and otherwise exactly n values, whether
\* it upsamples or downsamples.
Resampled == calc.fn = "resampleData"

C22_ResampleLength ==
    Resampled =>
        LET x == calc.in.data
            n == calc.in.targetLength
        IN /\ Len(x) = n => calc.out = x
           /\ (Len(x) = 0 \/ n = 0) => calc.out = <<>>
           /\ (Len(x) # 0 /\ n # 0) => Len(calc.out) = n

C22_Witness ==
    /\ Resampled
    /\ Len(calc.in.data) = MaxData /\ calc.in.targetLength = MaxData - 1
    /\ Len(calc.out) = MaxData - 1

\* ---- C23 (as stated). When resampleData downsamples, output i is the maximum
\* of the inputs with index from floor(i*len/n) up to, not including,
\* floor((i+1)*len/n), and no output exceeds the maximum of the input.
Bucket(i, len, n) == ((i * len) \div n) .. ((((i + 1) * len) \div n) - 1)

C23_Claim ==
    (Resampled /\ 0 < calc.in.targetLength
               /\ calc.in.targetLength < Len(calc.in.data)) =>
        LET x == calc.in.data
            n == calc.in.targetLength
        IN \A i \in 0..(n - 1) :
              /\ \E j \in Bucket(i, Len(x), n) : calc.out[i + 1] = x[j + 1]
              /\ \A j \in Bucket(i, Len(x), n) : QLe(x[j + 1], calc.out[i + 1])
              /\ \E j \in 0..(Len(x) - 1) : QLe(calc.out[i + 1], x[j + 1])

\* ---- C24. When resampleData upsamples (n > len(x) >= 1), output i is the
\* linear blend of x[floor(p)] and x[ceil(p)] at p = i*(len-1)/(n-1): the first
\* and last outputs are the first and last inputs, every output lies between
\* its two neighbouring inputs, and adjacent outputs differ by no more than
\* the largest difference of adjacent inputs.
Between(a, v, b) == (QLe(a, v) /\ QLe(v, b)) \/ (QLe(b, v) /\ QLe(v, a))

MaxAdjacentDelta(x, d) ==
    \A j \in 1..(Len(x) - 1) : QLe(QAbs(QSub(x[j + 1], x[j])), d)

Extracted == calc.fn = "extractPeaks"

Silent(buffer) ==
    \A c \in 1..buffer.numberOfChannels, j \in 1..buffer.length :
        buffer.data[c][j] = Q(0, 1)

AllZero(peaks) == \A i \in 1..Len(peaks) : QEq(peaks[i], Q(0, 1))

C25_PeakShape ==
    (Extracted /\ calc.in.buffer.kind = "AudioBuffer" /\ calc.in.samples >= 1) =>
        LET r == calc.out.value IN
        /\ ~calc.out.threw
        /\ Len(r) = calc.in.samples
        /\ \A i \in 1..Len(r) : QLe(Q(0, 1), r[i]) /\ QLe(r[i], Q(1, 1))
        /\ Silent(calc.in.buffer) => AllZero(r)
        /\ ~AllZero(r) => \E i \in 1..Len(r) : QEq(r[i], Q(1, 1))
        /\ normalizePeaks(r) = r

C25_Witness ==
    /\ Extracted /\ ~calc.out.threw
    /\ calc.in.buffer.numberOfChannels = 2 /\ calc.in.samples >= 2
    /\ \E i \in 1..Len(calc.out.value) : QEq(calc.out.value[i], Q(1, 1))
    /\ \E i \in 1..Len(calc.out.value) : QEq(calc.out.value[i], Q(1, 2))

\* ---- C26 (as stated). extractPeaks called with samples = 0, or with a
\* malformed buffer, raises an error.
C26_Claim ==
    (Extracted /\ (calc.in.samples = 0 \/ calc.in.buffer.kind # "AudioBuffer")) =>
        calc.out.threw

\* ---- C27 (as stated). When fewer than 2 onsets are found, detectBPM returns
\* 119.
Detected == calc.fn = "detectBPM"

C27_Claim == (Detected /\ Len(calc.out.onsets) < 2) => calc.out.bpm = 119

\* ---- C28. The bucket voted by detectBPM has the highest vote count, and of
\* several buckets with the highest count it is the numerically smallest.
Votes == votes(calc.out.onsets, calc.in.sampleRate)

Tied(b, c) == countOf(Votes, b) = countOf(Votes, c)

C28_VoteTie ==
    (Detected /\ Votes # <<>>) =>
        /\ calc.out.voted \in Buckets(Votes)
        /\ \A c \in Buckets(Votes) : countOf(Votes, c) <= countOf(Votes, calc.out.voted)
        /\ \A c \in Buckets(Votes) : Tied(c, calc.out.voted) => calc.out.voted <= c

C28_Witness ==
    /\ Detected /\ Len(Votes) = 2
    /\ Votes[1] > Votes[2]
    /\ calc.out.voted = Votes[2]
    /\ calc.out.bpm = Votes[2] - 1

\* ---- C28 (as stated). ... and of several buckets with the highest count it
\* is the one that received its first vote earliest in onset order.
FirstVote(b) == CHOOSE i \in 1..Len(Votes) : Votes[i] = b /\ \A j \in 1..(i - 1) : Votes[j] # b

C28_Claim ==
    (Detected /\ Votes # <<>>) =>
        /\ calc.out.voted \in Buckets(Votes)
        /\ \A c \in Buckets(Votes) : countOf(Votes, c) <= countOf(Votes, calc.out.voted)
        /\ \A c \in Buckets(Votes) :
              Tied(c, calc.out.voted) => FirstVote(calc.out.voted) <= FirstVote(c)

\* ---- C29 (as stated). The window starting at frame i is an onset exactly
\* when its energy rises enough and i is at least sampleRate * 0.15 frames past
\* the last onset before it, if there is one; consecutive onsets are at least
\* sampleRate * 0.15 frames apart.
RECURSIVE smoothedBefore(_, _)
smoothedBefore(blocks, k) ==
    IF k = 0 THEN 0
    ELSE smooth(windowEnergy(blocks, k - 1), smoothedBefore(blocks, k - 1))

Windows(blocks) == {k \in 0..Len(blocks) : k * hopSize < FrameCount(blocks) - windowSize}

OnsetSet == {calc.out.onsets[j] : j \in 1..Len(calc.out.onsets)}

C29_Claim ==
    Detected =>
        /\ \A k \in Windows(calc.in.blocks) :
              LET i == k * hopSize
                  earlier == {o \in OnsetSet : o < i}
              IN (i \in OnsetSet) <=>
                    /\ risesEnough(windowEnergy(calc.in.blocks, k),
                                   smoothedBefore(calc.in.blocks, k))
                    /\ \A o \in earlier :
                          (\A e \in earlier : e <= o) =>
                              100 * (i - o) >= 15 * calc.in.sampleRate
        /\ \A j \in 1..(Len(calc.out.onsets) - 1) :
              100 * (calc.out.onsets[j + 1] - calc.out.onsets[j])
                  >= 15 * calc.in.sampleRate

\* ---- C21 (as stated). A numeric array, its JSON text and its comma-separated
\* text supplied as the waveform give the same numeric envelope, and a load
\* with a supplied waveform ends with a non-empty envelope of numbers only.
numeral(x) ==
    IF x < 10 THEN <<IF x = 1 THEN "1" ELSE "2">>
    ELSE <<IF x \div 10 = 1 THEN "1" ELSE "2", IF x % 10 = 1 THEN "1" ELSE "2">>

RECURSIVE csvText(_)
csvText(xs) ==
    IF xs = <<>> THEN <<>>
    ELSE IF Len(xs) = 1 THEN numeral(xs[1])
    ELSE numeral(xs[1]) \o <<",">> \o csvText(Tail(xs))

jsonText(xs) == <<"[">> \o csvText(xs) \o <<"]">>

Loaded == calc.fn = "load"

C21_Claim ==
    Loaded =>
        /\ \A xs \in SuppliedArrays \ {<<>>} :
              (\/ calc.in.kind = "array" /\ calc.in.array = [i \in 1..Len(xs) |-> Num(xs[i])]
               \/ calc.in.kind = "string" /\ calc.in.text = jsonText(xs)
               \/ calc.in.kind = "string" /\ calc.in.text = csvText(xs))
                  => calc.out.envelope = [i \in 1..Len(xs) |-> Num(xs[i])]
        /\ calc.out.from = "supplied" =>
              /\ calc.out.envelope # <<>>
              /\ \A i \in 1..Len(calc.out.envelope) : calc.out.envelope[i].kind = "number"

\* ---- C30 (as stated). For as long as a player stays Playing, a polling
\* callback of it is scheduled: the loop stops rescheduling only after playback
\* has stopped, whether the play event arrived after or before the metadata.
PollingScheduled ==
    /\ players["p1"].updateTimer = "live"
    /\ \E i \in 1..Len(raf["p1"]) : raf["p1"][i]

C30_Claim == players["p1"].isPlaying => PollingScheduled

\* ---- C31 (as stated). When a loadTrack(url) call has settled without error,
\* the envelope shown is one obtained for url (supplied with the call, extracted
\* from url, or a placeholder for it) and not one obtained for another track.
C31_Claim ==
    \A p \in AllPlayers :
        (Noted("trackSettled", p) /\ Noted("onLoad", p)) =>
            players[p].waveformData.url \in {options[p].url, NoUrl}

\* ---- C32 (as stated). Once every load()/loadTrack() call of a player has
\* settled, its envelope and its BPM are those of the track requested last,
\* whatever the order in which the analyses of overlapping calls finished
\* (stated for calls that settled without a media error).
C32_Claim ==
    \A p \in instances :
        (loads[p] = <<>> /\ ~players[p].hasError) =>
            /\ players[p].waveformData.url \in {options[p].url, NoUrl}
            /\ players[p].detectedBPM \in {options[p].url, NoUrl}

\* ---- C33 (as stated). In the step in which the load of a loadTrack() call
\* ends in the error state, the player does not start its media, does not
\* become the holder of currentlyPlaying, and no other player's media is paused.
C33_Claim ==
    [][\A p \in AllPlayers :
        (NotedIn(notes', "trackSettled", p) /\ NotedIn(notes', "onError", p)) =>
            /\ audio'[p].paused
            /\ currentlyPlaying' # p
            /\ \A q \in AllPlayers \ {p} : audio'[q].paused = audio[q].paused]_vars

\* ---- C34 (as stated). A media error event raised while one load() call waits
\* for the metadata notifies onError exactly once.
C34_Claim ==
    [][\A p \in AllPlayers :
        (Waiting(p) = 1 /\ NotedIn(notes', "onError", p)) =>
            CountNotes(notes', "onError", p) = 1]_vars

\* ---- C35 (as stated). A player that has been destroyed is never the holder
\* of currentlyPlaying and its media never plays, whatever load() or loadTrack()
\* call was pending when it was destroyed.
C35_Claim ==
    \A p \in AllPlayers \ instances :
        /\ currentlyPlaying # p
        /\ audio[p].paused

\* ---- C36 (as stated). Every player constructed and not destroyed is among
\* getAllInstances() and is what getInstance(its id) returns, whatever the
\* container ids and urls of the players, and whichever players were destroyed.
C36_Claim ==
    \A p \in instances :
        /\ p \in getAllInstances(Cur)
        /\ getInstance(Cur, registry.id[p]) = p

\* ---- C37 (as stated). A step that takes a player from playing to paused
\* notifies onPause once; at the end of a track it notifies onPause once and
\* then onEnd once.
C37_Claim ==
    [][\A p \in AllPlayers :
        (players[p].isPlaying /\ ~players'[p].isPlaying) =>
            /\ CountNotes(notes', "onPause", p) = 1
            /\ NotedIn(notes', "onEnd", p) => CountNotes(notes', "onEnd", p) = 1]_vars

\* ---- C39. For a current track that has chapters, every time update at
\* playback time t leaves currentChapterIndex at the largest index i with
\* chapters[i].time <= t, or at -1 when no chapter starts at or before t; and a
\* selectTrack of a track of the list leaves currentChapterIndex at -1 (no time
\* update of the new track has happened yet).
ChapterAt(track, t) ==
    LET chapters == TrackChapters[track + 1]
        hits == {i \in 1..Len(chapters) : chapters[i] <= t}
    IN IF hits = {} THEN -1
       ELSE (CHOOSE i \in hits : \A j \in hits : j <= i) - 1

TimeUpdated(p) ==
    /\ notes' # <<>>
    /\ notes'[Len(notes')] = <<"onTimeUpdate", p>>

C39_ChapterTracking ==
    [][/\ \A p \in AllPlayers :
            (/\ playlist.player = p
             /\ TimeUpdated(p)
             /\ TrackChapters[playlist'.currentTrackIndex + 1] # <<>>) =>
                playlist'.currentChapterIndex =
                    ChapterAt(playlist'.currentTrackIndex, audio'[p].currentTime)
       /\ (/\ call'.op = "selectTrack"
           /\ call'.arg \in 0..(playlist.ntracks - 1)) =>
                playlist'.currentChapterIndex = -1
       /\ playlist'.currentTrackIndex # playlist.currentTrackIndex =>
                playlist'.currentChapterIndex = -1]_vars

\* A time update at 1000 on the first track puts the playlist in its second
\* chapter.
C39_Witness ==
    /\ playlist.player = "p1"
    /\ notes # <<>> /\ notes[Len(notes)] = <<"onTimeUpdate", "p1">>
    /\ playlist.currentTrackIndex = 0
    /\ audio["p1"].currentTime = 1000
    /\ playlist.currentChapterIndex = 1

\* ---- C38 (as stated). After a seekToChapter to another track, once the timer
\* has fired and the new track has loaded (nothing queued, no load waiting, the
\* media ready), the playlist is on that track and its player is playing at
\* the requested time, clamped to the track's duration.
ChapterSeekSettled(p) ==
    /\ playlist.sought # NoSought
    /\ playlist.player = p
    /\ playlist.timers = <<>>
    /\ queue = <<>>
    /\ loads[p] = <<>>
    /\ ~initPending[p]
    /\ audio[p].media = "ready"
    /\ ~players[p].hasError
    /\ ~players[p].isLoading

C38_Claim ==
    \A p \in AllPlayers :
        ChapterSeekSettled(p) =>
            /\ playlist.currentTrackIndex = playlist.sought.track
            /\ players[p].isPlaying
            /\ ~audio[p].paused
            /\ audio[p].currentTime = Max(0, Min(playlist.sought.time, Duration))

\* ---- C40 (as stated). After playlist.destroy(), no callback of the playlist
\* (the seekToChapter timer, the keydown listener, a notification of its
\* player) throws on the cleared player, list element or track list, and none
\* changes the playlist's state.
PlaylistState(pl) ==
    <<pl.player, pl.ntracks, pl.currentTrackIndex, pl.currentChapterIndex,
      pl.isPlaying>>

C40_Claim ==
    [][(playlist.callbacks # NoPlayer /\ playlist.player = NoPlayer) =>
          /\ ~NotedIn(notes', "TypeError", playlist.callbacks)
          /\ PlaylistState(playlist') = PlaylistState(playlist)]_vars

====
